---- MODULE Spec2Model ----
(***************************************************************************)
(* microplugins: the plugins kernel (plugins<L>), the task storage it and  *)
(* every plugin derive from (storage<L>, tasks<Ts...>, task<Ts...>) and    *)
(* the threads the kernel spawns (loop_cb, service_cb, service_plugin_cb). *)
(*                                                                         *)
(* Time is counted in whole minutes (task::idle() truncates to minutes).   *)
(* The plugin table is a std::map keyed by name, so it is iterated in      *)
(* name order; an iterator is a name of the table or END.                  *)
(* A thread that asks for the kernel's lock takes its step when the lock   *)
(* can be taken; an operation that waits inside (stop, unload_plugin) or   *)
(* loops under the lock is split at its waits and loop tests.              *)
(***************************************************************************)
EXTENDS Integers, Sequences, FiniteSets, TLC

\* ------------------------------------------------------------------ bounds
MaxTime == 1
MaxThreads == 1
\* room for threads of each kind where two sweep loops are looked for
SweepThreads == 2
\* libraries on the search path: in Spec, and in LiveSpec
MaxLibs == 2
LiveLibs == 1
\* entries in the file system a load searches
MaxFiles == 2

\* ------------------------------------------------------- program constants
MAX_PLUGINS_ARGS == 6
DocumentedArgs == 8
INT_MAX == 2147483647
IdleBuckets == 6
DefaultMaxIdle == 10

\* The two builds of the framework the model covers: the default one and the
\* one the README configures with cmake -DMAX_PLUGINS_ARGS=8.
BuildArgs == {MAX_PLUGINS_ARGS, DocumentedArgs}

\* ------------------------------------------------------------------ threads
\* c1 calls every operation of the kernel; c2 only asks for plugins, uses them
\* and lets them go (it does not run, stop, unload or configure the kernel).
Clients == {"c1", "c2"}
Admins == {"c1"}
NONE == "none"
END == "end"
SVC == "svc"

\* --------------------------------------------------------- shared_library
\* Directories are paths, as sequences of components.  The caller passes the
\* directory U or none; PATH holds the directory P or none.
U == <<"u">>
P == <<"p">>
PathArgs == {<<>>, <<U>>}
EnvPaths == {<<>>, <<P>>}

\* env_path: ".:lib:plugins:../lib:../plugins:../lib/plugins"
Defaults ==
  <<<<".">>, <<"lib">>, <<"plugins">>, <<"..", "lib">>, <<"..", "plugins">>,
    <<"..", "lib", "plugins">>>>

\* The "../lib/" appended on a build that is not for Windows.
DotDotLib == <<"..", "lib">>

\* The entries a directory may hold, for load("foo"): a library; a file with
\* a matching name that dlopen rejects; a file whose name does not match
\* "libfoo[._\-0-9]{0,12}.so[._\-0-9]{0,12}"; a directory with a matching name.
LibSo == "libfoo.so.1.2"
LibBroken == "libfoo-0.so"
LibA == "libfoo.a"
LibSubdir == "libfoo.so.d"
Files == {LibSo, LibBroken, LibA, LibSubdir}

\* std_filesystem::is_regular_file(dir_iter->status())
Regular(f) == f # LibSubdir

\* std::regex_match(filename, name_lib_filter)
Matches(f) == f \in {LibSo, LibBroken, LibSubdir}

\* dlopen(path, flags) gives a handle
Dlopen(f) == f = LibSo

\* The directories of the file system that hold entries, and the file system:
\* a list of (directory, entry), in the order directory_iterator gives them.
Dirs ==
  {U, P, P \o DotDotLib, P \o DotDotLib \o U} \cup {Defaults[i] : i \in DOMAIN Defaults}
NoFile == <<<<>>, "">>
FileSystems == [1..MaxFiles -> (Dirs \X Files) \cup {NoFile}]

\* directory_iterator(p): the entries of directory p
Listing(files, p) == SelectSeq(files, LAMBDA e : e[1] = p)

\* A search that looks in the default directories before the caller's.
EnvPathDefaultsFirst(path0) == Defaults \o path0

\* `if (!path0.empty()) env_path = path0 + ":" + env_path;`
EnvPath(path0) == IF path0 # <<>> THEN path0 \o Defaults ELSE Defaults

\* The two nested loops that append paths2[_i2] + "/../lib/" + paths0[_i0].
Appended(paths0, paths2) ==
  [k \in 1..(Len(paths0) * Len(paths2)) |->
     LET i0 == ((k - 1) \div Len(paths2)) + 1
         i2 == ((k - 1) % Len(paths2)) + 1
     IN  paths2[i2] \o DotDotLib \o paths0[i0]]

\* The inner for loop of load_dll, from the j-th entry of the directory.
RECURSIVE DirScan(_, _)
DirScan(entries, j) ==
  IF j > Len(entries) THEN NoFile
  ELSE IF ~Regular(entries[j][2]) THEN DirScan(entries, j + 1)
  ELSE IF ~Matches(entries[j][2]) THEN DirScan(entries, j + 1)
  ELSE IF Dlopen(entries[j][2]) THEN entries[j]
  ELSE DirScan(entries, j + 1)

\* The outer for loop of load_dll, from the i-th path (paths[_i] with _i = i - 1):
\* `if (_i >= npaths1 && _i < npaths2) str_path += "../lib/";`, a path that is
\* not a directory is skipped (it lists nothing).
RECURSIVE LoadDllFrom(_, _, _, _, _)
LoadDllFrom(paths, npaths1, npaths2, files, i) ==
  IF i > Len(paths) THEN NoFile
  ELSE LET str_path == IF i - 1 >= npaths1 /\ i - 1 < npaths2
                       THEN paths[i] \o DotDotLib ELSE paths[i]
           ret == DirScan(Listing(files, str_path), 1)
       IN  IF ret # NoFile THEN ret
           ELSE LoadDllFrom(paths, npaths1, npaths2, files, i + 1)

\* shared_library::load_dll: the file opened, NoFile for nullptr.
LoadDll(path0, paths2, files) ==
  LET env_path == EnvPath(path0)
      npaths1 == Len(env_path)
      npaths2 == npaths1 + Len(paths2)
      paths == env_path \o paths2 \o Appended(path0, paths2)
  IN  LoadDllFrom(paths, npaths1, npaths2, files, 1)

\* shared_library(): dll_(nullptr), filename_(); no load was asked for yet.
NoLibrary ==
  [loaded |-> FALSE, path0 |-> <<>>, PATH |-> <<>>, files |-> <<>>,
   dll_ |-> FALSE, filename_ |-> NoFile, before |-> NoFile]

\* The symbols a caller looks up: the factory every plugin library exports
\* (`import_plugin`), and one no library exports.
Symbols == {"import_plugin", "no_such_symbol"}

\* dlsym(handle of file f, s): the address of s, "none" for a null pointer.
Dlsym(f, s) == IF Dlopen(f[2]) /\ s = "import_plugin" THEN s ELSE NONE

\* No lookup was made on the object since its last load or unload.
NoLookup == [op |-> NONE, s |-> "", ret |-> NONE, has |-> FALSE]

\* ------------------------------------------------- the libraries on disk
\* Names the callers ask get_plugin for.  "a" and "b" export plugins without
\* a service task, "s" a plugin with one (plugin1.cxx with its
\* subscribe<1>("service", service) line in); these three are built with
\* MAX_PLUGINS_ARGS=8.  "x" is built with the default 6.  No library is found
\* for "other_plugin", the name plugin1's service asks for.
Names == {"a", "b", "s", "x"}
Other == "other_plugin"
NameOrder == <<"a", "b", "s", "x">>

Rank(nm) == CHOOSE i \in 1..Len(NameOrder) : NameOrder[i] = nm

\* Handlers (std::function values) and help texts given to subscribe; NULLFN
\* is an empty std::function.
NULLFN == "nullptr"
Handlers == {"h1", "h2"}
HelpOf(fn) == IF fn = "h1" THEN "help1" ELSE IF fn = "h2" THEN "help2" ELSE ""

\* task(nm, t, hlp): task() and then name_, fn_, help_.
MakeTask(fn, hlp, t) == [clock |-> t, once |-> FALSE, fn |-> fn, help |-> hlp]

\* A fresh task: task() sets clock_ to now and is_once_ to false; the tasks
\* the kernel's owner and the plugins subscribe get the handler "h1".
NewTask(t) == MakeTask("h1", HelpOf("h1"), t)

\* tasks::empty_task_, made by task() when the bucket is constructed.
EmptyTask == MakeTask(NULLFN, "", 0)

\* What a caller passes to run<I>: an int, a std::string (its text is not
\* modelled) or an empty std::any; and the std::any a handler takes or gives.
IntArg(n) == [type |-> "int", v |-> n]
StringArg == [type |-> "string", v |-> 0]
AnyArg == [type |-> "any", v |-> 0]
ArgValues == {IntArg(125), IntArg(175), StringArg, AnyArg}

EmptyAny == [has_value |-> FALSE, type |-> "void", v |-> 0]
MakeAny(type, v) == [has_value |-> TRUE, type |-> type, v |-> v]

\* The std::any parameter made from an argument: a copy of a std::any, else
\* a std::any that holds the value with its type.
ToAny(x) == IF x.type = "any" THEN EmptyAny ELSE MakeAny(x.type, x.v)

\* The handlers of examples/plugin1.cxx.  sum2: 0 when an argument is empty
\* or not an int, else the sum; test0: a string.
Apply(fn, a) ==
  CASE fn = "sum2" ->
         IF ~a[1].has_value \/ ~a[2].has_value THEN MakeAny("int", 0)
         ELSE IF a[1].type # "int" \/ a[2].type # "int" THEN MakeAny("int", 0)
         ELSE MakeAny("int", a[1].v + a[2].v)
    [] fn = "test0" -> MakeAny("string", 0)
    [] OTHER -> EmptyAny

\* No run<I>(nm, args...) was made yet.
NoFuture ==
  [call |-> [called |-> FALSE, I |-> 0, nm |-> "", args |-> <<>>, had |-> FALSE,
             once |-> FALSE, at |-> 0],
   valid |-> FALSE, fn |-> NULLFN, received |-> <<>>, launches |-> 0,
   ready |-> FALSE, value |-> EmptyAny]

\* What a call of run or run_once returned: nothing yet, a future with a
\* state (valid), or the empty future `{}`.
\* What a call on the registry gives back: a future that is valid, one that is
\* empty (`return {}`), or nothing (void); PENDING while it has not returned.
VALID == "valid"
EMPTY == "empty"
VOID == "void"
PENDING == "pending"

Called(op, I, nm, fn, res) == [op |-> op, I |-> I, nm |-> nm, fn |-> fn, res |-> res]
NoCall == Called("", 0, "", "", VOID)

\* What a library's plugin subscribes in its constructor: bucket -> names.
LibTasks(nm) ==
  CASE nm = "a" -> [I \in {0} |-> {"test0"}]
    [] nm = "b" -> [I \in {2} |-> {"sum2"}]
    [] nm = "s" -> [I \in {1} |-> {"service"}]
    [] OTHER    -> [I \in {0} |-> {"test0"}]

\* max_args() of the plugin a library exports: the L it was compiled with.
LibArgs(nm) == IF nm = "x" THEN MAX_PLUGINS_ARGS ELSE DocumentedArgs

VARIABLES
  k_args,      \* L of the kernel's build (storage::max_args())
  disk,        \* the libraries shared_library(nm, path_) finds and opens
  do_work_,    \* plugins::do_work_
  expiry_,     \* plugins::expiry_
  error_,      \* plugins::error_
  max_idle_,   \* plugins::max_idle_
  plugins_,    \* the names that have an entry in plugins::plugins_
  tasks_,      \* the kernel's own storage::tasks_ : bucket -> name -> task
  mtx_,        \* the kernel's storage::mtx_ : [writer, readers]
  inst,        \* per library name: the plugin instance (do_work_, tasks_)
  refs,        \* per library name: who holds a shared_ptr besides the table
  pc,          \* per client thread: the operation it is in
  loop,        \* per thread slot: where that loop_cb thread is
  it,          \* the iterator of the for loop running under the lock
  ksvc,        \* per thread slot: where that service_cb thread is
  psvc,        \* per library name: where its service_plugin_cb thread is
  now,         \* the clock, in minutes
  cycle,       \* history: what the running sweep cycle saw when it began
  launched,    \* history: per kernel task, run_once launches since is_once_ was clear
  last,        \* the last call made on the kernel's registry or the last load that
               \* gave no plugin, and what it returned
  count,       \* what the last count_plugins() returned, -1 before any call
  fired,       \* history: launches of the kernel's "service" handler since the
               \* start of the running kernel (2: two or more)
  ran,         \* history: per kernel task, run_once launches since it was
               \* subscribed (2: two or more)
  library,     \* a shared_library object: the arguments and the file system of
               \* its load, dll_ (is it set) and filename_; history: filename_
               \* as it was when that load was called (before)
  handles,     \* the files the dynamic loader holds open: dlopen adds, dlclose removes
  libcall,     \* the last symbol lookup on the shared_library object since its last
               \* load or unload: the pointer (ret) or the answer (has) it gave
  future,      \* the last run<I>(nm, args...) made with arguments on the kernel's
               \* registry: the call, the launch it made, and the shared state of
               \* the future it returned
  main         \* the main thread of examples/microservice.cxx after its run():
               \* where it is, and the exit code it returned

vars == <<k_args, disk, do_work_, expiry_, error_, max_idle_, plugins_, tasks_, mtx_,
          inst, refs, pc, loop, it, ksvc, psvc, now, cycle, launched, last, count, fired, ran,
          library, handles, libcall, future, main>>

\* Two more files every search path holds: a library that opens but exports
\* no import_plugin, and one whose import_plugin returns nullptr.
NoFactory == "no_import_plugin"
NullPlugin == "null_plugin"
Failing == {NoFactory, NullPlugin}

\* shared_library(nm, path_) finds and opens a file: `dll && dll->is_loaded()`
LibFound(nm) == nm \in disk \cup Failing

\* `loader = dll->get<import_plugin_cb_t>("import_plugin")` is not null
HasLoader(nm) == nm # NoFactory

\* `ret = loader()`: the name of the instance made, NONE for nullptr
Loader(nm) == IF nm = NullPlugin THEN NONE ELSE nm

\* `dll->is_loaded()`, `loader && (ret = loader())`: the load gives a plugin
Made(nm) == LibFound(nm) /\ HasLoader(nm) /\ Loader(nm) # NONE

\* ------------------------------------------------------------ task storage
Task(reg, I, nm) == reg[I][nm]

\* tasks::has(nm) behind storage::has<I>(nm): `if constexpr (I < L)`.
Has(reg, I, nm, L) == I < L /\ I \in DOMAIN reg /\ nm \in DOMAIN reg[I]

\* task::idle(): whole minutes since clock_.
TaskIdle(task, t) == t - task.clock

\* tasks::idle(): the running minimum over the bucket, returning at once when
\* it becomes 0; INT_MAX for an empty bucket.
RECURSIVE TasksIdleFrom(_, _, _, _)
TasksIdleFrom(bucket, left, ret, t) ==
  IF left = {} THEN ret
  ELSE LET nm == CHOOSE n \in left : TRUE
           current_idle == TaskIdle(bucket[nm], t)
       IN  IF current_idle < ret
           THEN IF current_idle = 0 THEN 0
                ELSE TasksIdleFrom(bucket, left \ {nm}, current_idle, t)
           ELSE TasksIdleFrom(bucket, left \ {nm}, ret, t)

TasksIdle(bucket, t) == TasksIdleFrom(bucket, DOMAIN bucket, INT_MAX, t)

\* storage::idle<I>(): 0 when bucket I is outside the build (I >= L).
StorageIdleAt(reg, I, L, t) ==
  IF I < L THEN (IF I \in DOMAIN reg THEN TasksIdle(reg[I], t) ELSE INT_MAX)
  ELSE 0

\* storage::idle(): idle<0>() .. idle<6>() in turn, same running minimum.
RECURSIVE StorageIdleFrom(_, _, _, _, _)
StorageIdleFrom(reg, L, t, I, ret) ==
  IF I > IdleBuckets THEN ret
  ELSE LET current_idle == StorageIdleAt(reg, I, L, t)
       IN  IF current_idle < ret
           THEN IF current_idle = 0 THEN 0
                ELSE StorageIdleFrom(reg, L, t, I + 1, current_idle)
           ELSE StorageIdleFrom(reg, L, t, I + 1, ret)

StorageIdle(reg, L, t) == StorageIdleFrom(reg, L, t, 0, INT_MAX)

\* tasks::clear_once over every bucket (storage::clear_once).
ClearOnce(reg) ==
  [I \in DOMAIN reg |-> [nm \in DOMAIN reg[I] |-> [reg[I][nm] EXCEPT !.once = FALSE]]]

\* ------------------------------------------------------- plugin instances
\* The instance a library's factory makes at time t: iplugin(v, nm) with
\* do_work_ false and no kernel, its constructor's tasks subscribed.
NewInst(nm, t) ==
  [do_work |-> FALSE, backref |-> FALSE,
   tasks |-> [I \in DOMAIN LibTasks(nm) |-> [n \in LibTasks(nm)[I] |-> NewTask(t)]]]

\* No instance of the library exists.
NoInst(nm) == NewInst(nm, 0)

\* shared_ptr::use_count() of the instance: the table's pointer and the others.
UseCount(nm) == (IF nm \in plugins_ THEN 1 ELSE 0) + Cardinality(refs[nm])

\* The instance is destroyed with its last pointer.
InstAfter(nm, table, holders) ==
  IF nm \notin table /\ holders = {} THEN NoInst(nm) ELSE inst[nm]

\* iplugin::has<1>("service") of the instance.
HasService(nm) == Has(inst[nm].tasks, 1, "service", LibArgs(nm))

\* iplugin::idle() of the instance.
PluginIdle(nm) == StorageIdle(inst[nm].tasks, LibArgs(nm), now)

\* --------------------------------------------------------- the std::map
\* std::begin(plugins_)
Begin(table) ==
  IF table = {} THEN END
  ELSE CHOOSE nm \in table : \A o \in table : Rank(nm) <= Rank(o)

\* ++it for an iterator at entry nm
Succ(table, nm) ==
  LET after == {o \in table : Rank(o) > Rank(nm)}
  IN  Begin(after)

\* the i-th entry in iteration order (i < size)
Nth(table, i) == CHOOSE nm \in table : Cardinality({o \in table : Rank(o) < Rank(nm)}) = i

\* -------------------------------------------------------------- the lock
Unlocked == [writer |-> NONE, readers |-> {}]

\* std::unique_lock<std::shared_mutex> can be taken
CanWrite == mtx_.writer = NONE /\ mtx_.readers = {}

\* std::shared_lock<std::shared_mutex> can be taken
CanRead == mtx_.writer = NONE

Idle == [op |-> "idle", at |-> "", nm |-> "", i |-> 0]

\* A kernel service handler's result: an int, or something else.
SvcResults == {[int |-> TRUE, val |-> 3], [int |-> FALSE, val |-> 0]}

\* What the kernel's owner subscribes before run(): a task "lambda0" without
\* arguments and, in some programs, a "service" task with one.
KernelTasks(withService) ==
  [I \in {0, 1} |->
     IF I = 0 THEN [n \in {"lambda0"} |-> NewTask(0)]
     ELSE [n \in (IF withService THEN {"service"} ELSE {}) |-> NewTask(0)]]

KernelTaskNames == {"lambda0", "service"}

NoLaunch == [n \in KernelTaskNames |-> 0]

\* plugins(v, nm, path0): do_work_(false), expiry_(true), error_(0), max_idle_(10)
\* with at most n libraries on the search path, the kernel's own tasks reg,
\* and room for `threads` threads of each kind.
ConstructWith(n, reg, threads) ==
  /\ k_args \in BuildArgs
  /\ disk \in {d \in SUBSET Names : Cardinality(d) <= n}
  /\ tasks_ = reg
  /\ do_work_ = FALSE
  /\ expiry_ = TRUE
  /\ error_ = 0
  /\ max_idle_ = DefaultMaxIdle
  /\ plugins_ = {}
  /\ mtx_ = Unlocked
  /\ inst = [nm \in Names |-> NoInst(nm)]
  /\ refs = [nm \in Names |-> {}]
  /\ pc = [c \in Clients |-> Idle]
  /\ loop = [r \in 1..threads |-> "dead"]
  /\ it = END
  /\ ksvc = [r \in 1..threads |-> "dead"]
  /\ psvc = [nm \in Names |-> "dead"]
  /\ now = 0
  /\ cycle = {}
  /\ launched = NoLaunch
  /\ last = NoCall
  /\ count = -1
  /\ fired = 0
  /\ ran = NoLaunch
  /\ library = NoLibrary
  /\ handles = <<>>
  /\ libcall = NoLookup
  /\ future = NoFuture
  /\ main = [at |-> "poll", code |-> 0]

Construct(n, reg) == ConstructWith(n, reg, MaxThreads)

Init == Construct(MaxLibs, KernelTasks(FALSE))

\* The plugin pointers a thread keeps.
Held(t) == {nm \in Names : t \in refs[nm]}

\* The lowest slot whose thread has ended (0: none).
FreeSlot(f) ==
  IF \E r \in DOMAIN f : f[r] = "dead"
  THEN CHOOSE r \in DOMAIN f : f[r] = "dead" /\ \A q \in DOMAIN f : f[q] = "dead" => r <= q
  ELSE 0

\* The caller returns having changed nothing.
Return(c) ==
  /\ pc' = [pc EXCEPT ![c] = Idle]
  /\ UNCHANGED <<k_args, disk, do_work_, expiry_, error_, max_idle_, plugins_, tasks_,
                 mtx_, inst, refs, loop, it, ksvc, psvc, now, cycle, launched, last, count, fired, ran, library,
                 handles, libcall, future, main>>

\* ----------------------------------------------------- shared_library::load
\* dlclose(dll_): the loader gives up the handle it opened on file f.
RECURSIVE Dlclose(_, _)
Dlclose(open, f) ==
  IF open = <<>> THEN <<>>
  ELSE IF Head(open) = f THEN Tail(open)
  ELSE <<Head(open)>> \o Dlclose(Tail(open), f)

\* load without the unload() before load_dll.
LoadKeepsHandle(path0, paths2, files) ==
  /\ LET ret == LoadDll(path0, paths2, files)
     IN  /\ library' = [loaded |-> TRUE, path0 |-> path0, PATH |-> paths2, files |-> files,
                        dll_ |-> ret # NoFile,
                        filename_ |-> IF ret # NoFile THEN ret ELSE library.filename_,
                        before |-> library.filename_]
         /\ handles' = IF ret # NoFile THEN Append(handles, ret) ELSE handles
  /\ libcall' = NoLookup
  /\ UNCHANGED <<k_args, disk, do_work_, expiry_, error_, max_idle_, plugins_, tasks_,
                 mtx_, inst, refs, pc, loop, it, ksvc, psvc, now, cycle, launched, last,
                 count, fired, ran, future, main>>

\* load("foo", path0), from shared_library(name_lib, path0, flags) on the new
\* object or on an object in use, with PATH and the file system as they are
\* at the call:
\* `unload(); return ((dll_ = load_dll(name_lib, path0, flags)) != nullptr);`
\* load_dll sets filename_ when dlopen gives it a handle.
Load(path0, paths2, files) ==
  /\ LET ret == LoadDll(path0, paths2, files)
         released == IF library.dll_ THEN Dlclose(handles, library.filename_) ELSE handles
     IN  /\ library' = [loaded |-> TRUE, path0 |-> path0, PATH |-> paths2, files |-> files,
                        dll_ |-> ret # NoFile, filename_ |-> ret,
                        before |-> library.filename_]
         /\ handles' = IF ret # NoFile THEN Append(released, ret) ELSE released
  /\ libcall' = NoLookup
  /\ UNCHANGED <<k_args, disk, do_work_, expiry_, error_, max_idle_, plugins_, tasks_,
                 mtx_, inst, refs, pc, loop, it, ksvc, psvc, now, cycle, launched, last,
                 count, fired, ran, future, main>>

\* --------------------------------------------------- shared_library::unload
\* unload without filename_.clear().
UnloadKeepsFilename ==
  /\ IF library.dll_
     THEN /\ handles' = Dlclose(handles, library.filename_)
          /\ library' = [library EXCEPT !.dll_ = FALSE]
     ELSE UNCHANGED <<library, handles>>
  /\ libcall' = NoLookup
  /\ UNCHANGED <<k_args, disk, do_work_, expiry_, error_, max_idle_, plugins_, tasks_,
                 mtx_, inst, refs, pc, loop, it, ksvc, psvc, now, cycle, launched, last,
                 count, fired, ran, future, main>>

\* `if (is_loaded()) { dlclose(dll_); dll_ = nullptr; filename_.clear(); }`
Unload ==
  /\ IF library.dll_
     THEN /\ handles' = Dlclose(handles, library.filename_)
          /\ library' = [library EXCEPT !.dll_ = FALSE, !.filename_ = NoFile]
     ELSE UNCHANGED <<library, handles>>
  /\ libcall' = NoLookup
  /\ UNCHANGED <<k_args, disk, do_work_, expiry_, error_, max_idle_, plugins_, tasks_,
                 mtx_, inst, refs, pc, loop, it, ksvc, psvc, now, cycle, launched, last,
                 count, fired, ran, future, main>>

\* ------------------------------------------ shared_library::has, get, get_raw
\* has(s): `(!dll_ || !dlsym(dll_, s.c_str())) ? false : true`
LibHas(s) ==
  /\ libcall' = [op |-> "has", s |-> s, ret |-> NONE,
                 has |-> IF ~library.dll_ \/ Dlsym(library.filename_, s) = NONE
                         THEN FALSE ELSE TRUE]
  /\ UNCHANGED <<k_args, disk, do_work_, expiry_, error_, max_idle_, plugins_, tasks_,
                 mtx_, inst, refs, pc, loop, it, ksvc, psvc, now, cycle, launched, last,
                 count, fired, ran, library, handles, future, main>>

\* get<T>(s): `r = nullptr; if (dll_ != nullptr) r = ...dlsym(dll_, s.c_str());`
Get(s) ==
  /\ libcall' = [op |-> "get", s |-> s,
                 ret |-> IF library.dll_ THEN Dlsym(library.filename_, s) ELSE NONE,
                 has |-> FALSE]
  /\ UNCHANGED <<k_args, disk, do_work_, expiry_, error_, max_idle_, plugins_, tasks_,
                 mtx_, inst, refs, pc, loop, it, ksvc, psvc, now, cycle, launched, last,
                 count, fired, ran, library, handles, future, main>>

\* get_raw(s): `dll_ ? dlsym(dll_, s.c_str()) : nullptr`
GetRaw(s) ==
  /\ libcall' = [op |-> "get_raw", s |-> s,
                 ret |-> IF library.dll_ THEN Dlsym(library.filename_, s) ELSE NONE,
                 has |-> FALSE]
  /\ UNCHANGED <<k_args, disk, do_work_, expiry_, error_, max_idle_, plugins_, tasks_,
                 mtx_, inst, refs, pc, loop, it, ksvc, psvc, now, cycle, launched, last,
                 count, fired, ran, library, handles, future, main>>

\* --------------------------------------------------------- plugins::run
\* run() with `error_ = 0;` before the test `if (do_work_) return;`
RunBodyResets(c) ==
  IF do_work_
  THEN /\ error_' = 0
       /\ pc' = [pc EXCEPT ![c] = Idle]
       /\ UNCHANGED <<k_args, disk, do_work_, expiry_, max_idle_, plugins_, tasks_,
                      mtx_, inst, refs, loop, it, ksvc, psvc, now, cycle, launched, last, count, fired, ran, library,
                 handles, libcall, future, main>>
  ELSE /\ FreeSlot(loop) # 0 /\ FreeSlot(ksvc) # 0
       /\ error_' = 0
       /\ do_work_' = TRUE
       /\ expiry_' = FALSE
       /\ loop' = [loop EXCEPT ![FreeSlot(loop)] = "check"]
       /\ ksvc' = [ksvc EXCEPT ![FreeSlot(ksvc)] = "has"]
       /\ pc' = [pc EXCEPT ![c] = Idle]
       /\ fired' = 0
       /\ UNCHANGED <<k_args, disk, max_idle_, plugins_, tasks_, mtx_, inst, refs, it,
                      psvc, now, cycle, launched, last, count, ran, library,
                 handles, libcall, future, main>>

\* run() without the test `if (do_work_) return;`
RunBodyRespawns(c) ==
  /\ FreeSlot(loop) # 0 /\ FreeSlot(ksvc) # 0
  /\ error_' = 0
  /\ do_work_' = TRUE
  /\ expiry_' = FALSE
  /\ loop' = [loop EXCEPT ![FreeSlot(loop)] = "check"]
  /\ ksvc' = [ksvc EXCEPT ![FreeSlot(ksvc)] = "has"]
  /\ pc' = [pc EXCEPT ![c] = Idle]
  /\ fired' = 0
  /\ UNCHANGED <<k_args, disk, max_idle_, plugins_, tasks_, mtx_, inst, refs, it,
                 psvc, now, cycle, launched, last, count, ran, library,
                 handles, libcall, future, main>>

RunBody(c) ==
  IF do_work_ THEN Return(c)
  ELSE /\ FreeSlot(loop) # 0 /\ FreeSlot(ksvc) # 0
       /\ error_' = 0
       /\ do_work_' = TRUE
       /\ expiry_' = FALSE
       /\ loop' = [loop EXCEPT ![FreeSlot(loop)] = "check"]
       /\ ksvc' = [ksvc EXCEPT ![FreeSlot(ksvc)] = "has"]
       /\ pc' = [pc EXCEPT ![c] = Idle]
       /\ fired' = 0
       /\ UNCHANGED <<k_args, disk, max_idle_, plugins_, tasks_, mtx_, inst, refs, it,
                      psvc, now, cycle, launched, last, count, ran, library,
                 handles, libcall, future, main>>

Run(c) ==
  /\ pc[c] = Idle
  /\ CanWrite
  /\ RunBody(c)

\* -------------------------------------------------------- plugins::stop
\* stop() that lets go of the lock after `do_work_ = false;`
StopBodyUnlocked(c) ==
  IF ~do_work_ THEN Return(c)
  ELSE /\ do_work_' = FALSE
       /\ pc' = [pc EXCEPT ![c] = [op |-> "stop", at |-> "wait", nm |-> "", i |-> 0]]
       /\ UNCHANGED <<k_args, disk, expiry_, error_, max_idle_, plugins_, tasks_, inst,
                      refs, loop, it, ksvc, psvc, now, cycle, launched, last, mtx_, count, fired, ran, library,
                 handles, libcall, future, main>>

StopBody(c) ==
  IF ~do_work_ THEN Return(c)
  ELSE /\ do_work_' = FALSE
       /\ mtx_' = [mtx_ EXCEPT !.writer = c]
       /\ pc' = [pc EXCEPT ![c] = [op |-> "stop", at |-> "wait", nm |-> "", i |-> 0]]
       /\ UNCHANGED <<k_args, disk, expiry_, error_, max_idle_, plugins_, tasks_, inst,
                      refs, loop, it, ksvc, psvc, now, cycle, launched, last, count, fired, ran, library,
                 handles, libcall, future, main>>

Stop(c) ==
  /\ pc[c] = Idle
  /\ CanWrite
  /\ StopBody(c)

\* stop() that also resets the error code once the sweep loop has ended.
StopWaitClearsError(c) ==
  /\ pc[c].op = "stop" /\ pc[c].at = "wait"
  /\ expiry_
  /\ pc' = [pc EXCEPT ![c].at = "unload"]
  /\ error_' = 0
  /\ UNCHANGED <<k_args, disk, do_work_, expiry_, max_idle_, plugins_, tasks_,
                 mtx_, inst, refs, loop, it, ksvc, psvc, now, cycle, launched, last, count, fired, ran, library,
                 handles, libcall, future, main>>

\* while (!expiry_) sleep(50ms): left once the sweep loop has set expiry_
StopWait(c) ==
  /\ pc[c].op = "stop" /\ pc[c].at = "wait"
  /\ expiry_
  /\ pc' = [pc EXCEPT ![c].at = "unload"]
  /\ UNCHANGED <<k_args, disk, do_work_, expiry_, error_, max_idle_, plugins_, tasks_,
                 mtx_, inst, refs, loop, it, ksvc, psvc, now, cycle, launched, last, count, fired, ran, library,
                 handles, libcall, future, main>>

\* The iterator after `plugins_.erase(it++)` and the for loop's own `++it`.
\* nxt is what it++ left in `it`, table the map after the erase.  When nxt is
\* end() the second increment is undefined: the loop may go on from any entry,
\* may see end(), or may never come back from the increment (HUNG).
HUNG == "hung"

IterAfterErase(table, nxt) ==
  IF nxt # END THEN {Succ(table, nxt)} ELSE table \cup {END, HUNG}

\* plugins::unload_plugins, the `while (!std::empty(plugins_))` test between
\* two passes; after the last pass stop() goes on to storage::clear_once().
StopWhile(c) ==
  /\ pc[c].op = "stop" /\ pc[c].at = "unload"
  /\ it = END
  /\ IF plugins_ = {}
     THEN /\ tasks_' = ClearOnce(tasks_)
          /\ launched' = NoLaunch
          /\ mtx_' = Unlocked
          /\ pc' = [pc EXCEPT ![c] = Idle]
          /\ it' = END
     ELSE /\ it' = Begin(plugins_)
          /\ UNCHANGED <<tasks_, launched, mtx_, pc>>
  /\ UNCHANGED <<k_args, disk, do_work_, expiry_, error_, max_idle_, plugins_, inst,
                 refs, loop, ksvc, psvc, now, cycle, last, count, fired, ran, library,
                 handles, libcall, future, main>>

\* plugins::unload_plugins, one entry of the for loop
StopFor(c) ==
  /\ pc[c].op = "stop" /\ pc[c].at = "unload"
  /\ it # END
  /\ IF UseCount(it) > 1
     THEN /\ inst' = [inst EXCEPT ![it].do_work = FALSE]
          /\ it' = Succ(plugins_, it)
          /\ UNCHANGED <<plugins_, pc>>
     ELSE LET table == plugins_ \ {it}
          IN  /\ plugins_' = table
              /\ inst' = [inst EXCEPT ![it] = InstAfter(it, table, refs[it])]
              /\ \E j \in IterAfterErase(table, Succ(plugins_, it)) :
                   IF j = HUNG
                   THEN it' = END /\ pc' = [pc EXCEPT ![c].at = HUNG]
                   ELSE it' = j /\ UNCHANGED pc
  /\ UNCHANGED <<k_args, disk, do_work_, expiry_, error_, max_idle_, tasks_, mtx_,
                 refs, loop, ksvc, psvc, now, cycle, launched, last, count, fired, ran, library,
                 handles, libcall, future, main>>

\* ----------------------------------------------- plugins::count_plugins
\* Takes the lock shared (the caller waits while a writer holds it) and
\* returns a number.
CountedAlwaysZero(running, table) == 0

\* `return do_work_ ? std::size(plugins_) : 0;`
Counted(running, table) == IF running THEN Cardinality(table) ELSE 0

CountPlugins(c) ==
  /\ pc[c] = Idle
  /\ CanRead
  /\ count' = Counted(do_work_, plugins_)
  /\ UNCHANGED <<k_args, disk, do_work_, expiry_, error_, max_idle_, plugins_, tasks_,
                 mtx_, inst, refs, pc, loop, it, ksvc, psvc, now, cycle, launched, last, fired, ran, library,
                 handles, libcall, future, main>>

\* -------------------------------- plugins::get_plugin(const std::string&)
\* The caller keeps the pointer it gets.  A library is loaded only while no
\* instance of an earlier load of it is still alive.
AbiAccepted(nm) == LibArgs(nm) = k_args

\* A failed load that is fatal: it leaves the error code -1.
GetPluginFailedSetsError(c, nm) ==
  /\ pc' = [pc EXCEPT ![c] = Idle]
  /\ error_' = -1
  /\ last' = Called("get_plugin", 0, nm, "", NONE)
  /\ UNCHANGED <<k_args, disk, do_work_, expiry_, max_idle_, plugins_, tasks_,
                 mtx_, inst, refs, loop, it, ksvc, psvc, now, cycle, launched, count, fired, ran, library,
                 handles, libcall, future, main>>

\* `return ret;` with ret still nullptr: no library, no import_plugin, or a
\* null plugin.  Nothing but the call's record changes.
GetPluginFailed(c, nm) ==
  /\ pc' = [pc EXCEPT ![c] = Idle]
  /\ last' = Called("get_plugin", 0, nm, "", NONE)
  /\ UNCHANGED <<k_args, disk, do_work_, expiry_, error_, max_idle_, plugins_, tasks_,
                 mtx_, inst, refs, loop, it, ksvc, psvc, now, cycle, launched, count, fired, ran, library,
                 handles, libcall, future, main>>

\* get_plugin without the search in plugins_: every call on a running kernel
\* loads the library again.
GetPluginBodyNoSearch(c, nm) ==
  IF ~do_work_ THEN Return(c)
  ELSE IF ~Made(nm) THEN GetPluginFailed(c, nm)
  ELSE /\ IF AbiAccepted(nm)
          THEN /\ inst' = [inst EXCEPT ![nm] = [NewInst(nm, now) EXCEPT !.backref = TRUE]]
               /\ plugins_' = plugins_ \cup {nm}
               /\ psvc' = [psvc EXCEPT ![nm] = "has"]
               /\ refs' = [refs EXCEPT ![nm] = {SVC, c}]
          ELSE /\ inst' = [inst EXCEPT ![nm] = NewInst(nm, now)]
               /\ refs' = [refs EXCEPT ![nm] = {c}]
               /\ UNCHANGED <<plugins_, psvc>>
       /\ pc' = [pc EXCEPT ![c] = Idle]
       /\ UNCHANGED <<k_args, disk, do_work_, expiry_, error_, max_idle_, tasks_, mtx_,
                      loop, it, ksvc, now, cycle, launched, last, count, fired, ran, library,
                 handles, libcall, future, main>>

GetPluginBody(c, nm) ==
  IF ~do_work_ THEN Return(c)
  ELSE IF nm \in plugins_
  THEN /\ refs' = [refs EXCEPT ![nm] = @ \cup {c}]
       /\ pc' = [pc EXCEPT ![c] = Idle]
       /\ UNCHANGED <<k_args, disk, do_work_, expiry_, error_, max_idle_, plugins_,
                      tasks_, mtx_, inst, loop, it, ksvc, psvc, now, cycle, launched, last, count, fired, ran, library,
                 handles, libcall, future, main>>
  ELSE IF ~Made(nm) THEN GetPluginFailed(c, nm)
  ELSE /\ refs[nm] = {}
       /\ IF AbiAccepted(nm)
          THEN /\ inst' = [inst EXCEPT ![nm] = [NewInst(nm, now) EXCEPT !.backref = TRUE]]
               /\ plugins_' = plugins_ \cup {nm}
               /\ psvc' = [psvc EXCEPT ![nm] = "has"]
               /\ refs' = [refs EXCEPT ![nm] = {SVC, c}]
          ELSE /\ inst' = [inst EXCEPT ![nm] = NewInst(nm, now)]
               /\ refs' = [refs EXCEPT ![nm] = {c}]
               /\ UNCHANGED <<plugins_, psvc>>
       /\ pc' = [pc EXCEPT ![c] = Idle]
       /\ UNCHANGED <<k_args, disk, do_work_, expiry_, error_, max_idle_, tasks_, mtx_,
                      loop, it, ksvc, now, cycle, launched, last, count, fired, ran, library,
                 handles, libcall, future, main>>

GetPlugin(c, nm) ==
  /\ pc[c] = Idle
  /\ CanWrite
  /\ GetPluginBody(c, nm)

\* ------------------------------------------ plugins::get_plugin(std::size_t)
GetPluginAtBody(c, i) ==
  IF do_work_ /\ i < Cardinality(plugins_)
  THEN /\ refs' = [refs EXCEPT ![Nth(plugins_, i)] = @ \cup {c}]
       /\ pc' = [pc EXCEPT ![c] = Idle]
       /\ UNCHANGED <<k_args, disk, do_work_, expiry_, error_, max_idle_, plugins_,
                      tasks_, mtx_, inst, loop, it, ksvc, psvc, now, cycle, launched, last, count, fired, ran, library,
                 handles, libcall, future, main>>
  ELSE Return(c)

GetPluginAt(c, i) ==
  /\ pc[c] = Idle
  /\ CanRead
  /\ GetPluginAtBody(c, i)

\* ----------------------------------------------- plugins::unload_plugin
\* Up to the wait: the flag is cleared and the caller starts polling
\* use_count(), the lock still held.
UnloadFound(c, nm) ==
  /\ inst' = [inst EXCEPT ![nm].do_work = FALSE]
  /\ mtx_' = [mtx_ EXCEPT !.writer = c]
  /\ pc' = [pc EXCEPT ![c] = [op |-> "unload_plugin", at |-> "drain", nm |-> nm, i |-> 0]]
  /\ UNCHANGED <<k_args, disk, do_work_, expiry_, error_, max_idle_, plugins_, tasks_,
                 refs, loop, it, ksvc, psvc, now, cycle, launched, last, count, fired, ran, library,
                 handles, libcall, future, main>>

\* unload_plugin(const std::string& nm)
UnloadPluginBody(c, nm) ==
  IF do_work_ /\ nm \in plugins_ THEN UnloadFound(c, nm) ELSE Return(c)

UnloadPlugin(c, nm) ==
  /\ pc[c] = Idle
  /\ CanWrite
  /\ UnloadPluginBody(c, nm)

\* unload_plugin(std::size_t i)
UnloadPluginAtBody(c, i) ==
  IF do_work_ /\ i < Cardinality(plugins_)
  THEN UnloadFound(c, Nth(plugins_, i))
  ELSE Return(c)

UnloadPluginAt(c, i) ==
  /\ pc[c] = Idle
  /\ CanWrite
  /\ UnloadPluginAtBody(c, i)

\* The wait's test is inverted: the loop is left while others hold the plugin.
DrainedInverted(nm) == UseCount(nm) > 1

\* `while (std::get<1>(it->second).use_count() > 1)` is left
Drained(nm) == ~(UseCount(nm) > 1)

\* `while (use_count() > 1) { log; sleep(1s); }`: the test that ends the wait
UnloadDrained(c) ==
  /\ pc[c].op = "unload_plugin" /\ pc[c].at = "drain"
  /\ Drained(pc[c].nm)
  /\ pc' = [pc EXCEPT ![c].at = "erase"]
  /\ UNCHANGED <<k_args, disk, do_work_, expiry_, error_, max_idle_, plugins_, tasks_,
                 mtx_, inst, refs, loop, it, ksvc, psvc, now, cycle, launched, last, count, fired, ran, library,
                 handles, libcall, future, main>>

\* `plugins_.erase(it)` and the return, which unlocks
UnloadErase(c) ==
  /\ pc[c].op = "unload_plugin" /\ pc[c].at = "erase"
  /\ LET nm == pc[c].nm
         table == plugins_ \ {nm}
     IN  /\ plugins_' = table
         /\ inst' = [inst EXCEPT ![nm] = InstAfter(nm, table, refs[nm])]
  /\ mtx_' = Unlocked
  /\ pc' = [pc EXCEPT ![c] = Idle]
  /\ UNCHANGED <<k_args, disk, do_work_, expiry_, error_, max_idle_, tasks_, refs,
                 loop, it, ksvc, psvc, now, cycle, launched, last, count, fired, ran, library,
                 handles, libcall, future, main>>

\* ------------------------------------------------- plugins::max_idle(int)
MaxIdleArgs == {-1, 0, 1}

\* A running sweep cycle no longer answers for what it saw under the old value.
MaxIdle(c, i) ==
  /\ pc[c] = Idle
  /\ IF i >= 0
     THEN max_idle_' = i /\ cycle' = (IF i = max_idle_ THEN cycle ELSE {})
     ELSE UNCHANGED <<max_idle_, cycle>>
  /\ UNCHANGED <<k_args, disk, do_work_, expiry_, error_, plugins_, tasks_, mtx_, inst,
                 refs, pc, loop, it, ksvc, psvc, now, launched, last, count, fired, ran, library,
                 handles, libcall, future, main>>

\* ------------------------------------------------------------ the callers
\* A caller drops a plugin pointer it kept.
Release(c, nm) ==
  /\ pc[c] = Idle
  /\ c \in refs[nm]
  /\ refs' = [refs EXCEPT ![nm] = @ \ {c}]
  /\ inst' = [inst EXCEPT ![nm] = InstAfter(nm, plugins_, refs[nm] \ {c})]
  /\ UNCHANGED <<k_args, disk, do_work_, expiry_, error_, max_idle_, plugins_, tasks_,
                 mtx_, pc, loop, it, ksvc, psvc, now, cycle, launched, last, count, fired, ran, library,
                 handles, libcall, future, main>>

\* task::run that launches without `clock_ = micro::now();`
TaskRunKeepsClock(task, t) == task

\* task::run: nothing for a fired once-task, else clock_ = now() and the launch.
TaskRun(task, t) ==
  IF task.once \/ task.fn = NULLFN THEN task ELSE [task EXCEPT !.clock = t]

\* A caller dispatches a task of a plugin it holds: storage::run<I>(name).
Dispatch(c, nm, I, name) ==
  /\ pc[c] = Idle
  /\ c \in refs[nm]
  /\ Has(inst[nm].tasks, I, name, LibArgs(nm))
  /\ name # "service"
  /\ inst' = [inst EXCEPT ![nm].tasks[I][name] = TaskRun(@, now)]
  /\ UNCHANGED <<k_args, disk, do_work_, expiry_, error_, max_idle_, plugins_, tasks_,
                 mtx_, refs, pc, loop, it, ksvc, psvc, now, cycle, launched, last, count, fired, ran, library,
                 handles, libcall, future, main>>

\* A minute passes.
Tick ==
  /\ now < MaxTime
  /\ now' = now + 1
  /\ UNCHANGED <<k_args, disk, do_work_, expiry_, error_, max_idle_, plugins_, tasks_,
                 mtx_, inst, refs, pc, loop, it, ksvc, psvc, cycle, launched, last, count, fired, ran, library,
                 handles, libcall, future, main>>

\* ------------------------------------------------------ plugins::loop_cb
LOOP == "loop"

\* `while (k->do_work_)` and, when a check is due, `if (!k->max_idle_) continue`.
\* The loop ends with `k->expiry_ = true`.
LoopCheck(r) ==
  /\ loop[r] = "check"
  /\ IF ~do_work_
     THEN expiry_' = TRUE /\ loop' = [loop EXCEPT ![r] = "dead"]
     ELSE /\ loop' = [loop EXCEPT ![r] = IF max_idle_ = 0 THEN "check" ELSE "lock"]
          /\ UNCHANGED expiry_
  /\ UNCHANGED <<k_args, disk, do_work_, error_, max_idle_, plugins_, tasks_, mtx_,
                 inst, refs, pc, it, ksvc, psvc, now, cycle, launched, last, count, fired, ran, library,
                 handles, libcall, future, main>>

\* Every task of the instance has been idle for at least m minutes.
AllTasksIdle(nm, m) ==
  \A I \in DOMAIN inst[nm].tasks : \A n \in DOMAIN inst[nm].tasks[I] :
    TaskIdle(inst[nm].tasks[I][n], now) >= m

\* `std::unique_lock<std::shared_mutex> lock(k->mtx_)` and std::begin(plugins_).
\* cycle records the entries that are due when the cycle begins: no service
\* task, no pointer but the table's, every task idle for max_idle_ or more.
LoopLock(r) ==
  /\ loop[r] = "lock"
  /\ CanWrite
  /\ mtx_' = [mtx_ EXCEPT !.writer = LOOP]
  /\ it' = Begin(plugins_)
  /\ loop' = [loop EXCEPT ![r] = "sweep"]
  /\ cycle' = {nm \in plugins_ : /\ ~HasService(nm)
                                 /\ UseCount(nm) = 1
                                 /\ max_idle_ > 0
                                 /\ AllTasksIdle(nm, max_idle_)}
  /\ UNCHANGED <<k_args, disk, do_work_, expiry_, error_, max_idle_, plugins_, tasks_,
                 inst, refs, pc, ksvc, psvc, now, launched, last, count, fired, ran, library,
                 handles, libcall, future, main>>

\* The test without its service clause.
SweepEvictsAnyIdle(nm) == PluginIdle(nm) >= max_idle_

\* The test of the for loop's body: the entry is to be erased.
SweepEvicts(nm) == PluginIdle(nm) >= max_idle_ /\ ~HasService(nm)

\* One entry of the for loop.
LoopFor(r) ==
  /\ loop[r] = "sweep"
  /\ it # END
  /\ IF SweepEvicts(it)
     THEN LET table == plugins_ \ {it}
          IN  /\ plugins_' = table
              /\ inst' = [inst EXCEPT ![it] = InstAfter(it, table, refs[it])]
              /\ \E j \in IterAfterErase(table, Succ(plugins_, it)) :
                   IF j = HUNG
                   THEN it' = END /\ loop' = [loop EXCEPT ![r] = HUNG]
                   ELSE it' = j /\ UNCHANGED loop
     ELSE /\ it' = Succ(plugins_, it)
          /\ UNCHANGED <<plugins_, inst, loop>>
  /\ UNCHANGED <<k_args, disk, do_work_, expiry_, error_, max_idle_, tasks_, mtx_,
                 refs, pc, ksvc, psvc, now, cycle, launched, last, count, fired, ran, library,
                 handles, libcall, future, main>>

\* The for loop ends, the lock is released, the thread sleeps 100 ms.
LoopEnd(r) ==
  /\ loop[r] = "sweep"
  /\ it = END
  /\ mtx_' = Unlocked
  /\ loop' = [loop EXCEPT ![r] = "check"]
  /\ cycle' = {}
  /\ UNCHANGED <<k_args, disk, do_work_, expiry_, error_, max_idle_, plugins_, tasks_,
                 inst, refs, pc, it, ksvc, psvc, now, launched, last, count, fired, ran, library,
                 handles, libcall, future, main>>

\* --------------------------------------------------- plugins::service_cb
\* `if (!k->has<1>("service")) return;` under the shared lock
KsvcHas(r) ==
  /\ ksvc[r] = "has"
  /\ CanRead
  /\ ksvc' = [ksvc EXCEPT ![r] = IF Has(tasks_, 1, "service", k_args)
                                 THEN "run_once" ELSE "dead"]
  /\ UNCHANGED <<k_args, disk, do_work_, expiry_, error_, max_idle_, plugins_, tasks_,
                 mtx_, inst, refs, pc, loop, it, psvc, now, cycle, launched, last, count, fired, ran, library,
                 handles, libcall, future, main>>

\* task::run_once on the kernel's "service", called on the task itself with
\* no lock: `if (is_once_ || !fn_) return {};`.  A fired task gives an invalid
\* future; r.wait() on it is undefined: it returns (and error_ becomes -1) or
\* the thread never gets past it (libstdc++ throws std::future_error there,
\* which nothing catches).
KsvcRunOnce(r) ==
  /\ ksvc[r] = "run_once"
  /\ IF Task(tasks_, 1, "service").once
     THEN \E returns \in BOOLEAN :
            IF returns
            THEN error_' = -1 /\ ksvc' = [ksvc EXCEPT ![r] = "dead"]
            ELSE ksvc' = [ksvc EXCEPT ![r] = HUNG] /\ UNCHANGED error_
     ELSE ksvc' = [ksvc EXCEPT ![r] = "launch"] /\ UNCHANGED error_
  /\ UNCHANGED <<k_args, disk, do_work_, expiry_, max_idle_, plugins_, tasks_, mtx_,
                 inst, refs, pc, loop, it, psvc, now, cycle, launched, last, count, fired, ran, library,
                 handles, libcall, future, main>>

\* One more `std::async(std::launch::async, fn_, ...)` of a handler: it counts
\* when the task is the "service" of a running kernel.
Fired(I, nm) ==
  IF do_work_ /\ I = 1 /\ nm = "service" /\ fired < 2 THEN fired + 1 ELSE fired

\* task::run_once, the else branch: is_once_ = true, clock_ = now(), std::async
Launch(reg, I, nm, t) == [reg EXCEPT ![I][nm] = [@ EXCEPT !.clock = t, !.once = TRUE]]

KsvcLaunch(r) ==
  /\ ksvc[r] = "launch"
  /\ tasks_' = Launch(tasks_, 1, "service", now)
  /\ launched' = [launched EXCEPT !["service"] = @ + 1]
  /\ ran' = [ran EXCEPT !["service"] = IF @ < 2 THEN @ + 1 ELSE @]
  /\ ksvc' = [ksvc EXCEPT ![r] = "handler"]
  /\ fired' = Fired(1, "service")
  /\ UNCHANGED <<k_args, disk, do_work_, expiry_, error_, max_idle_, plugins_, mtx_,
                 inst, refs, pc, loop, it, psvc, now, cycle, last, count, library,
                 handles, libcall, future, main>>

\* The handler returns, r.wait() ends, the result becomes error_.
KsvcHandler(r) ==
  /\ ksvc[r] = "handler"
  /\ \E v \in SvcResults : error_' = IF v.int THEN v.val ELSE -1
  /\ ksvc' = [ksvc EXCEPT ![r] = "dead"]
  /\ UNCHANGED <<k_args, disk, do_work_, expiry_, max_idle_, plugins_, tasks_, mtx_,
                 inst, refs, pc, loop, it, psvc, now, cycle, launched, last, count, fired, ran, library,
                 handles, libcall, future, main>>

\* -------------------------------------------- plugins::service_plugin_cb
\* The thread ends and its copies of the plugin pointer go.
PsvcExit(nm) ==
  /\ psvc' = [psvc EXCEPT ![nm] = "dead"]
  /\ refs' = [refs EXCEPT ![nm] = @ \ {SVC}]
  /\ inst' = [inst EXCEPT ![nm] = InstAfter(nm, plugins_, refs[nm] \ {SVC})]

\* `if (!pl->has<1>("service")) return;`
PsvcHas(nm) ==
  /\ psvc[nm] = "has"
  /\ IF HasService(nm)
     THEN psvc' = [psvc EXCEPT ![nm] = "set"] /\ UNCHANGED <<refs, inst>>
     ELSE PsvcExit(nm)
  /\ UNCHANGED <<k_args, disk, do_work_, expiry_, error_, max_idle_, plugins_, tasks_,
                 mtx_, pc, loop, it, ksvc, now, cycle, launched, last, count, fired, ran, library,
                 handles, libcall, future, main>>

\* `pl->do_work_ = true;`
PsvcSet(nm) ==
  /\ psvc[nm] = "set"
  /\ inst' = [inst EXCEPT ![nm].do_work = TRUE]
  /\ psvc' = [psvc EXCEPT ![nm] = "run_once"]
  /\ UNCHANGED <<k_args, disk, do_work_, expiry_, error_, max_idle_, plugins_, tasks_,
                 mtx_, refs, pc, loop, it, ksvc, now, cycle, launched, last, count, fired, ran, library,
                 handles, libcall, future, main>>

\* task::run_once on the plugin's "service"
PsvcRunOnce(nm) ==
  /\ psvc[nm] = "run_once"
  /\ IF Task(inst[nm].tasks, 1, "service").once
     THEN PsvcExit(nm)
     ELSE /\ inst' = [inst EXCEPT ![nm].tasks = Launch(@, 1, "service", now)]
          /\ psvc' = [psvc EXCEPT ![nm] = "handler"]
          /\ UNCHANGED refs
  /\ UNCHANGED <<k_args, disk, do_work_, expiry_, error_, max_idle_, plugins_, tasks_,
                 mtx_, pc, loop, it, ksvc, now, cycle, launched, last, count, fired, ran, library,
                 handles, libcall, future, main>>

\* The service of plugin1.cxx: `while (self->is_run())`, and in the loop
\* manager->get_plugin("other_plugin"), which takes the kernel's lock, finds
\* no library and returns null.
PsvcPoll(nm) ==
  /\ psvc[nm] = "handler"
  /\ IF ~inst[nm].do_work
     THEN PsvcExit(nm)
     ELSE /\ psvc' = [psvc EXCEPT ![nm] = IF CanWrite THEN "handler" ELSE "get"]
          /\ UNCHANGED <<refs, inst>>
  /\ UNCHANGED <<k_args, disk, do_work_, expiry_, error_, max_idle_, plugins_, tasks_,
                 mtx_, pc, loop, it, ksvc, now, cycle, launched, last, count, fired, ran, library,
                 handles, libcall, future, main>>

\* The service's get_plugin call gets the lock and returns.
PsvcResume(nm) ==
  /\ psvc[nm] = "get"
  /\ CanWrite
  /\ psvc' = [psvc EXCEPT ![nm] = "handler"]
  /\ UNCHANGED <<k_args, disk, do_work_, expiry_, error_, max_idle_, plugins_, tasks_,
                 mtx_, inst, refs, pc, loop, it, ksvc, now, cycle, launched, last, count, fired, ran, library,
                 handles, libcall, future, main>>

\* A service that returns of its own accord, its work done, without reading
\* is_run(): r.wait() returns and the thread ends.
PsvcReturns(nm) ==
  /\ psvc[nm] = "handler"
  /\ PsvcExit(nm)
  /\ UNCHANGED <<k_args, disk, do_work_, expiry_, error_, max_idle_, plugins_, tasks_,
                 mtx_, pc, loop, it, ksvc, now, cycle, launched, last, count, fired, ran, library,
                 handles, libcall, future, main>>

\* ------------------------------------------------ main (microservice.cxx)
\* `while (plugins->is_run()) sleep(250ms);`: the test that ends the loop.
\* is_run() reads the atomic do_work_ and takes no lock.
MainPoll ==
  /\ main.at = "poll"
  /\ ~do_work_
  /\ main' = [main EXCEPT !.at = "read"]
  /\ UNCHANGED <<k_args, disk, do_work_, expiry_, error_, max_idle_, plugins_, tasks_,
                 mtx_, inst, refs, pc, loop, it, ksvc, psvc, now, cycle, launched, last,
                 count, fired, ran, library, handles, libcall, future>>

\* `return plugins->error();`: error() reads the atomic error_, no lock.
MainReturn ==
  /\ main.at = "read"
  /\ main' = [at |-> "done", code |-> error_]
  /\ UNCHANGED <<k_args, disk, do_work_, expiry_, error_, max_idle_, plugins_, tasks_,
                 mtx_, inst, refs, pc, loop, it, ksvc, psvc, now, cycle, launched, last,
                 count, fired, ran, library, handles, libcall, future>>

\* --------------------------------------------- the kernel's own registry
\* tasks::operator[] that gives some task of the bucket, when there is one, for
\* a name the bucket does not hold
TaskOfAny(reg, I, nm) ==
  IF I \in DOMAIN reg /\ nm \in DOMAIN reg[I] THEN reg[I][nm]
  ELSE IF I \in DOMAIN reg /\ DOMAIN reg[I] # {}
  THEN reg[I][CHOOSE m \in DOMAIN reg[I] : TRUE]
  ELSE EmptyTask

\* tasks::operator[](const std::string&): the task, or empty_task_ when the
\* bucket has no task of that name.
TaskOf(reg, I, nm) ==
  IF I \in DOMAIN reg /\ nm \in DOMAIN reg[I] THEN reg[I][nm] ELSE EmptyTask

\* std::map keeps the tasks of a bucket in the order of their names.
TaskOrder == <<"lambda0", "service">>
NameRank(nm) == CHOOSE n \in DOMAIN TaskOrder : TaskOrder[n] = nm

\* tasks::operator[](std::size_t i): the i-th task in the order of the names;
\* NONE stands for empty_task_, which an index out of range gives.
NameAt(bucket, i) ==
  IF i < Cardinality(DOMAIN bucket)
  THEN CHOOSE nm \in DOMAIN bucket :
         Cardinality({m \in DOMAIN bucket : NameRank(m) < NameRank(nm)}) = i
  ELSE NONE

\* task::is_service: max_args() == 1 && name_ == "service"
IsService(I, nm) == I = 1 /\ nm = "service"

\* The test of task::run and task::run_once without is_once_: `if (!fn_) return {};`
RefusesNullOnly(task) == task.fn = NULLFN

\* The test of task::run and of task::run_once: `if (is_once_ || !fn_) return {};`
Refuses(task) == task.once \/ task.fn = NULLFN

\* storage::run_once<I>(nm): the shared lock is taken; `if constexpr (I < L)`
\* else an empty future.
RunOnceCall(c, I, nm) ==
  /\ pc[c] = Idle
  /\ CanRead
  /\ IF I < k_args
     THEN /\ mtx_' = [mtx_ EXCEPT !.readers = @ \cup {c}]
          /\ pc' = [pc EXCEPT ![c] = [op |-> "run_once", at |-> "test", nm |-> nm, i |-> I]]
          /\ last' = Called("run_once", I, nm, "", PENDING)
     ELSE last' = Called("run_once", I, nm, "", EMPTY) /\ UNCHANGED <<mtx_, pc>>
  /\ UNCHANGED <<k_args, disk, do_work_, expiry_, error_, max_idle_, plugins_, tasks_,
                 inst, refs, loop, it, ksvc, psvc, now, cycle, launched, count, fired, ran, library,
                 handles, libcall, future, main>>

\* storage::run_once<I>(i): the same on the i-th task of the bucket
RunOnceCallAt(c, I, i) == RunOnceCall(c, I, NameAt(tasks_[I], i))

\* task::run_once: `if (is_once_ || !fn_) return {};` (tasks::operator[] gives
\* the empty task, whose fn_ is null, for a name that is not subscribed)
RunOnceTest(c) ==
  /\ pc[c].op = "run_once" /\ pc[c].at = "test"
  /\ IF ~Refuses(TaskOf(tasks_, pc[c].i, pc[c].nm))
     THEN pc' = [pc EXCEPT ![c].at = "launch"] /\ UNCHANGED <<mtx_, last>>
     ELSE /\ pc' = [pc EXCEPT ![c] = Idle]
          /\ mtx_' = [mtx_ EXCEPT !.readers = @ \ {c}]
          /\ last' = Called("run_once", pc[c].i, pc[c].nm, "", EMPTY)
  /\ UNCHANGED <<k_args, disk, do_work_, expiry_, error_, max_idle_, plugins_, tasks_,
                 inst, refs, loop, it, ksvc, psvc, now, cycle, launched, count, fired, ran, library,
                 handles, libcall, future, main>>

\* run_once that returns from the launch with the shared lock still held.
RunOnceLaunchKeepsLock(c) ==
  /\ pc[c].op = "run_once" /\ pc[c].at = "launch"
  /\ tasks_' = Launch(tasks_, pc[c].i, pc[c].nm, now)
  /\ launched' = [launched EXCEPT ![pc[c].nm] = @ + 1]
  /\ ran' = [ran EXCEPT ![pc[c].nm] = IF @ < 2 THEN @ + 1 ELSE @]
  /\ pc' = [pc EXCEPT ![c] = Idle]
  /\ last' = Called("run_once", pc[c].i, pc[c].nm, "", VALID)
  /\ fired' = Fired(pc[c].i, pc[c].nm)
  /\ UNCHANGED <<k_args, disk, do_work_, expiry_, error_, max_idle_, plugins_, inst,
                 refs, loop, it, ksvc, psvc, now, cycle, count, mtx_, library,
                 handles, libcall, future, main>>

\* task::run_once, the else branch, and the return, which unlocks
RunOnceLaunch(c) ==
  /\ pc[c].op = "run_once" /\ pc[c].at = "launch"
  /\ tasks_' = Launch(tasks_, pc[c].i, pc[c].nm, now)
  /\ launched' = [launched EXCEPT ![pc[c].nm] = @ + 1]
  /\ ran' = [ran EXCEPT ![pc[c].nm] = IF @ < 2 THEN @ + 1 ELSE @]
  /\ mtx_' = [mtx_ EXCEPT !.readers = @ \ {c}]
  /\ pc' = [pc EXCEPT ![c] = Idle]
  /\ last' = Called("run_once", pc[c].i, pc[c].nm, "", VALID)
  /\ fired' = Fired(pc[c].i, pc[c].nm)
  /\ UNCHANGED <<k_args, disk, do_work_, expiry_, error_, max_idle_, plugins_, inst,
                 refs, loop, it, ksvc, psvc, now, cycle, count, library,
                 handles, libcall, future, main>>

\* storage::run<I>(nm) on the kernel's registry: task::run under the shared lock
RegistryRun(c, I, nm) ==
  /\ pc[c] = Idle
  /\ CanRead
  /\ IF I < k_args /\ ~Refuses(TaskOf(tasks_, I, nm))
     THEN /\ tasks_' = [tasks_ EXCEPT ![I][nm] = TaskRun(@, now)]
          /\ last' = Called("run", I, nm, "", VALID)
          /\ fired' = Fired(I, nm)
     ELSE /\ last' = Called("run", I, nm, "", EMPTY)
          /\ UNCHANGED <<tasks_, fired>>
  /\ UNCHANGED <<k_args, disk, do_work_, expiry_, error_, max_idle_, plugins_, mtx_,
                 inst, refs, pc, loop, it, ksvc, psvc, now, cycle, launched, count, ran, library,
                 handles, libcall, future, main>>

\* storage::run<I>(i): the same on the i-th task of the bucket
RegistryRunAt(c, I, i) == RegistryRun(c, I, NameAt(tasks_[I], i))

\* A launch that hands the arguments to the handler in reverse order.
ForwardReversed(args) == [i \in DOMAIN args |-> ToAny(args[Len(args) + 1 - i])]

\* std::forward<Args>(args)... into std::async(std::launch::async, fn_, ...):
\* the handler's std::any parameters are made from the arguments, in order.
Forward(args) == [i \in DOMAIN args |-> ToAny(args[i])]

\* storage::run<I>(nm, args...) with I arguments on the kernel's registry:
\* the shared lock, `if constexpr (I < L)`, tasks::operator[] (the empty task
\* for a name that is not subscribed), task::run: `if (is_once_ || !fn_)
\* return {};` else clock_ = now() and std::async of fn_ with the arguments.
StorageRun(c, I, nm, args) ==
  /\ pc[c] = Idle
  /\ CanRead
  /\ Len(args) = I
  /\ LET task == TaskOf(tasks_, I, nm)
         call == [called |-> TRUE, I |-> I, nm |-> nm, args |-> args,
                  had |-> I \in DOMAIN tasks_ /\ nm \in DOMAIN tasks_[I],
                  once |-> task.once, at |-> now]
     IN  IF I < k_args /\ ~Refuses(task)
         THEN /\ tasks_' = [tasks_ EXCEPT ![I][nm] = TaskRun(@, now)]
              /\ future' = [call |-> call, valid |-> TRUE, fn |-> task.fn,
                            received |-> Forward(args), launches |-> 1,
                            ready |-> FALSE, value |-> EmptyAny]
              /\ last' = Called("run", I, nm, "", VALID)
              /\ fired' = Fired(I, nm)
         ELSE /\ future' = [call |-> call, valid |-> FALSE, fn |-> NULLFN,
                            received |-> <<>>, launches |-> 0,
                            ready |-> FALSE, value |-> EmptyAny]
              /\ last' = Called("run", I, nm, "", EMPTY)
              /\ UNCHANGED <<tasks_, fired>>
  /\ UNCHANGED <<k_args, disk, do_work_, expiry_, error_, max_idle_, plugins_, mtx_,
                 inst, refs, pc, loop, it, ksvc, psvc, now, cycle, launched, count, ran,
                 library, handles, libcall, main>>

\* The thread std::async started runs the handler and makes the future ready
\* with what it returned.
HandlerReturns ==
  /\ future.valid /\ ~future.ready
  /\ future' = [future EXCEPT !.ready = TRUE, !.value = Apply(future.fn, future.received)]
  /\ UNCHANGED <<k_args, disk, do_work_, expiry_, error_, max_idle_, plugins_, tasks_,
                 mtx_, inst, refs, pc, loop, it, ksvc, psvc, now, cycle, launched, last,
                 count, fired, ran, library, handles, libcall, main>>

\* tasks::subscribe without the tests `!std::empty(nm)` and `!!t`
SubscribedUnchecked(reg, I, nm, fn, hlp, t) ==
  IF nm \notin DOMAIN reg[I]
  THEN [reg EXCEPT ![I] = [m \in DOMAIN @ \cup {nm} |->
                             IF m = nm THEN MakeTask(fn, hlp, t) ELSE @[m]]]
  ELSE reg

\* tasks::subscribe without the test `subscribers_.find(nm) == std::end(subscribers_)`
SubscribedOverwrites(reg, I, nm, fn, hlp, t) ==
  IF nm # "" /\ fn # NULLFN
  THEN [reg EXCEPT ![I] = [m \in DOMAIN @ \cup {nm} |->
                             IF m = nm THEN MakeTask(fn, hlp, t) ELSE @[m]]]
  ELSE reg

\* storage::subscribe<I>(nm, t, hlp): under the unique lock, tasks::subscribe:
\* `if (!std::empty(nm) && subscribers_.find(nm) == std::end(subscribers_) && !!t)`
\* the bucket gets a new task, made by task(nm, t, hlp).
Subscribed(reg, I, nm, fn, hlp, t) ==
  IF nm # "" /\ nm \notin DOMAIN reg[I] /\ fn # NULLFN
  THEN [reg EXCEPT ![I] = [m \in DOMAIN @ \cup {nm} |->
                             IF m = nm THEN MakeTask(fn, hlp, t) ELSE @[m]]]
  ELSE reg

Subscribe(c, I, nm, fn, hlp) ==
  /\ pc[c] = Idle
  /\ CanWrite
  /\ tasks_' = Subscribed(tasks_, I, nm, fn, hlp, now)
  /\ last' = Called("subscribe", I, nm, fn, VOID)
  /\ UNCHANGED <<k_args, disk, do_work_, expiry_, error_, max_idle_, plugins_, mtx_,
                 inst, refs, pc, loop, it, ksvc, psvc, now, cycle, launched, count, fired, ran, library,
                 handles, libcall, future, main>>

\* tasks::unsubscribe(nm): subscribers_.erase(nm); by index, the erase of the
\* i-th entry when i < std::size(subscribers_).
Erase(reg, I, nm) == [reg EXCEPT ![I] = [m \in DOMAIN @ \ {nm} |-> @[m]]]

\* storage::unsubscribe<I> without its test of is_service() and is_once()
UnsubscribedAlways(reg, I, nm) == Erase(reg, I, nm)

\* storage::unsubscribe<I>(nm): under the unique lock,
\* `if (tasks[nm].is_service() && tasks[nm].is_once()) return;`
\* `else tasks.unsubscribe(nm);`
Unsubscribed(reg, I, nm) ==
  IF IsService(I, nm) /\ TaskOf(reg, I, nm).once THEN reg ELSE Erase(reg, I, nm)

Unsubscribe(c, I, nm) ==
  /\ pc[c] = Idle
  /\ CanWrite
  /\ tasks_' = Unsubscribed(tasks_, I, nm)
  /\ launched' = IF nm \in DOMAIN launched /\ tasks_'[I] # tasks_[I]  \* a new count for a new task
                 THEN [launched EXCEPT ![nm] = 0] ELSE launched
  /\ ran' = IF nm \in DOMAIN ran /\ tasks_'[I] # tasks_[I]
            THEN [ran EXCEPT ![nm] = 0] ELSE ran
  /\ last' = Called("unsubscribe", I, nm, "", VOID)
  /\ UNCHANGED <<k_args, disk, do_work_, expiry_, error_, max_idle_, plugins_, mtx_,
                 inst, refs, pc, loop, it, ksvc, psvc, now, cycle, count, fired, library,
                 handles, libcall, future, main>>

\* storage::unsubscribe<I>(i): the same on the i-th task of the bucket
UnsubscribeAt(c, I, i) == Unsubscribe(c, I, NameAt(tasks_[I], i))

\* ------------------------------------------------------------------- Spec
Indexes == {0, 1}

\* The names callers pass: the libraries on the search path, and one name no
\* library is found for (every such name behaves alike).
Asked == disk \cup {Other}

Next ==
  \/ \E c \in Admins : Run(c)
  \/ \E c \in Admins : Stop(c)
  \/ \E c \in Admins : StopWait(c)
  \/ \E c \in Admins : StopWhile(c)
  \/ \E c \in Admins : StopFor(c)
  \/ \E c \in Admins, nm \in Asked : GetPlugin(c, nm)
  \/ \E c \in Clients \ Admins, nm \in disk : GetPlugin(c, nm)
  \/ \E c \in Admins, i \in Indexes : GetPluginAt(c, i)
  \/ \E c \in Admins, nm \in Asked : UnloadPlugin(c, nm)
  \/ \E c \in Admins, i \in Indexes : UnloadPluginAt(c, i)
  \/ \E c \in Admins : UnloadDrained(c)
  \/ \E c \in Admins : UnloadErase(c)
  \/ \E c \in Admins, i \in MaxIdleArgs : MaxIdle(c, i)
  \/ \E c \in Clients, nm \in Names : Release(c, nm)
  \/ \E c \in Clients, nm \in Names, I \in {0, 2}, name \in {"test0", "sum2"} :
       Dispatch(c, nm, I, name)
  \/ Tick
  \/ \E r \in 1..MaxThreads : LoopCheck(r)
  \/ \E r \in 1..MaxThreads : LoopLock(r)
  \/ \E r \in 1..MaxThreads : LoopFor(r)
  \/ \E r \in 1..MaxThreads : LoopEnd(r)
  \/ \E r \in 1..MaxThreads : KsvcHas(r)
  \/ \E nm \in Names : PsvcHas(nm)
  \/ \E nm \in Names : PsvcSet(nm)
  \/ \E nm \in Names : PsvcRunOnce(nm)
  \/ \E nm \in Names : PsvcPoll(nm)
  \/ \E nm \in Names : PsvcResume(nm)

Spec == Init /\ [][Next]_vars

\* ------------------------------------------- the kernel's own registry
\* A kernel with a "service" task and no plugin library: run and stop, the
\* threads run() spawns, and callers of run_once and run on the registry.
RegInit == Construct(0, KernelTasks(TRUE))

RegNext ==
  \/ \E c \in Admins : Run(c)
  \/ \E c \in Admins : Stop(c)
  \/ \E c \in Admins : StopWait(c)
  \/ \E c \in Admins : StopWhile(c)
  \/ \E c \in Clients, I \in Indexes : \E nm \in DOMAIN tasks_[I] : RunOnceCall(c, I, nm)
  \/ \E c \in Clients : RunOnceTest(c)
  \/ \E c \in Clients : RunOnceLaunch(c)
  \/ \E c \in Clients, I \in Indexes : \E nm \in DOMAIN tasks_[I] : RegistryRun(c, I, nm)
  \/ Tick
  \/ \E r \in 1..MaxThreads : LoopCheck(r)
  \/ \E r \in 1..MaxThreads : LoopLock(r)
  \/ \E r \in 1..MaxThreads : LoopEnd(r)
  \/ \E r \in 1..MaxThreads : KsvcHas(r)
  \/ \E r \in 1..MaxThreads : KsvcRunOnce(r)
  \/ \E r \in 1..MaxThreads : KsvcLaunch(r)
  \/ \E r \in 1..MaxThreads : KsvcHandler(r)

RegSpec == RegInit /\ [][RegNext]_vars

\* ------------------------------------------------- the kernel by itself
\* A kernel, with or without a "service" task, that its owner starts and
\* stops: nothing but run(), stop() and the two threads of run() touches it.
KernelInit == \E withService \in BOOLEAN : Construct(0, KernelTasks(withService))

KernelNext ==
  \/ \E c \in Admins : Run(c)
  \/ \E c \in Admins : Stop(c)
  \/ \E c \in Admins : StopWait(c)
  \/ \E c \in Admins : StopWhile(c)
  \/ Tick
  \/ \E r \in 1..MaxThreads : LoopCheck(r)
  \/ \E r \in 1..MaxThreads : LoopLock(r)
  \/ \E r \in 1..MaxThreads : LoopEnd(r)
  \/ \E r \in 1..MaxThreads : KsvcHas(r)
  \/ \E r \in 1..MaxThreads : KsvcRunOnce(r)
  \/ \E r \in 1..MaxThreads : KsvcLaunch(r)
  \/ \E r \in 1..MaxThreads : KsvcHandler(r)

KernelSpec == KernelInit /\ [][KernelNext]_vars

\* ----------------------------------------------- the registry by itself
\* One owner subscribes, unsubscribes, runs and runs once the tasks of a
\* registry of two buckets, by name and by index; the kernel is not started.
Slots == {0, 1, 2}
\* The owner registers handlers of one argument, under the kernel's names or
\* an empty name, beside the task without arguments it starts with; it calls
\* the tasks of both buckets by those names and by index.
SubscribeNames == KernelTaskNames \cup {""}
CallNames == KernelTaskNames

StoInit == Construct(0, KernelTasks(FALSE)) /\ k_args = MAX_PLUGINS_ARGS

StoNext ==
  \/ \E c \in Admins, nm \in SubscribeNames, fn \in Handlers \cup {NULLFN} :
       Subscribe(c, 1, nm, fn, HelpOf(fn))
  \/ \E c \in Admins, I \in Indexes, nm \in CallNames : Unsubscribe(c, I, nm)
  \/ \E c \in Admins, I \in Indexes, i \in Slots : UnsubscribeAt(c, I, i)
  \/ \E c \in Admins, I \in Indexes, nm \in CallNames : RunOnceCall(c, I, nm)
  \/ \E c \in Admins, I \in Indexes, i \in Slots : RunOnceCallAt(c, I, i)
  \/ \E c \in Admins : RunOnceTest(c)
  \/ \E c \in Admins : RunOnceLaunch(c)
  \/ \E c \in Admins, I \in Indexes, nm \in CallNames : RegistryRun(c, I, nm)
  \/ \E c \in Admins, I \in Indexes, i \in Slots : RegistryRunAt(c, I, i)
  \/ Tick

StoSpec == StoInit /\ [][StoNext]_vars

\* ------------------------------------------------------------- progress
\* Every thread that can take a step of its own takes it in the end, and a
\* caller lets go of a plugin whose do_work_ flag is cleared.
Fairness ==
  /\ \A r \in 1..MaxThreads :
       WF_vars(LoopCheck(r) \/ LoopLock(r) \/ LoopFor(r) \/ LoopEnd(r))
  /\ \A r \in 1..MaxThreads : WF_vars(KsvcHas(r))
  /\ \A c \in Admins : WF_vars(StopWait(c) \/ StopWhile(c) \/ StopFor(c))
  /\ \A c \in Admins : WF_vars(UnloadDrained(c) \/ UnloadErase(c))
  /\ \A nm \in Names :
       WF_vars(PsvcHas(nm) \/ PsvcSet(nm) \/ PsvcRunOnce(nm) \/ PsvcPoll(nm)
                 \/ PsvcResume(nm))
  /\ \A c \in Clients, nm \in Names : WF_vars(~inst[nm].do_work /\ Release(c, nm))

LiveInit == Construct(LiveLibs, KernelTasks(FALSE))

LiveSpec == LiveInit /\ [][Next]_vars /\ Fairness

\* ------------------------------------------------ a second starter
\* The kernel with one library on the search path, where every caller, and
\* not only the owner, may call run().
LifeNext ==
  \/ Next
  \/ \E c \in Clients : Run(c)

LifeSpec == LiveInit /\ [][LifeNext]_vars

\* A kernel whose clients also ask it how many plugins it holds.
ObsNext ==
  \/ Next
  \/ \E c \in Clients, nm \in Failing : GetPlugin(c, nm)
  \/ \E c \in Clients : CountPlugins(c)

ObsSpec == LiveInit /\ [][ObsNext]_vars

\* --------------------------------------------------------------- claims
\* Steps told apart by what they do to the table and who holds the lock.
Erased(nm) == nm \in plugins_ /\ nm \notin plugins_'

UnloadErasing == \E c \in Clients : pc[c].op = "unload_plugin" /\ pc[c].at = "erase"

Sweeping == mtx_.writer = LOOP

\* C1: a task whose once-flag was clear is launched by run_once at most once,
\* however many threads call run_once on it at the same time: all callers but
\* one get an empty future.
C1_OnceLaunchedOnce == \A n \in KernelTaskNames : launched[n] <= 1

\* C2: the step of unload_plugin (by name or by index) that erases a table
\* entry is taken only when nobody but the table holds the plugin instance.
C2_DrainSafety ==
  [][\A nm \in Names : (UnloadErasing /\ Erased(nm)) => refs[nm] = {}]_vars

\* C2 witness: unload_plugin is about to erase a plugin that has a service
\* task, whose service thread held the instance until the flag was cleared.
C2_DrainedService ==
  \E c \in Clients : /\ pc[c].op = "unload_plugin" /\ pc[c].at = "erase"
                      /\ HasService(pc[c].nm)
                      /\ inst[pc[c].nm].tasks[1]["service"].once

\* C3: the sweep loop erases a table entry only when the plugin's reference
\* count is exactly 1; an entry others still hold is skipped.
C3_SweepGatedOnRefs ==
  [][\A nm \in Names : (Sweeping /\ Erased(nm)) => refs[nm] = {}]_vars

\* C4: once stop() has cleared do_work_ and waits for the sweep loop, the
\* sweep loop sets expiry_ in the end.
C4_LoopAcknowledges == (\E c \in Admins : pc[c].at = "wait") ~> expiry_

\* C5: when the caller of stop() holds no plugin itself and every holder lets
\* go once the plugin's flag is cleared, stop(), having passed its wait for
\* the sweep loop, returns with the kernel stopped and the table empty.
C5_StopReturns ==
  \A c \in Admins :
    (pc[c].op = "stop" /\ pc[c].at = "unload" /\ Held(c) = {})
      ~> (pc[c] = Idle /\ ~do_work_ /\ plugins_ = {})

\* C6: a plugin whose max_args differs from the kernel's is never handed to a
\* caller of get_plugin, never entered in the table, never given the kernel's
\* back-reference and never given a service thread.
C6_AbiGate ==
  \A nm \in Names :
    ~AbiAccepted(nm) => /\ refs[nm] = {}
                        /\ nm \notin plugins_
                        /\ ~inst[nm].backref
                        /\ psvc[nm] = "dead"

\* C7: while unload_plugin waits for a plugin's reference count to drop, the
\* kernel's lock is free.
C7_LockFreeWhileDraining ==
  \A c \in Clients :
    (pc[c].op = "unload_plugin" /\ pc[c].at = "drain" /\ UseCount(pc[c].nm) > 1)
      => mtx_.writer = NONE

\* C8: the idle sweep never erases the entry of a plugin that has a task
\* named "service" with one argument.
C8_ServiceNeverSwept ==
  [][\A nm \in Names : (Sweeping /\ Erased(nm)) => ~HasService(nm)]_vars

\* C8 witness: a sweep has run past a plugin with a service task that has
\* been idle for max_idle_ or longer, and the plugin is still in the table.
C8_IdleServiceKept ==
  \E nm \in plugins_ : /\ Sweeping /\ it = END
                        /\ HasService(nm)
                        /\ max_idle_ > 0
                        /\ PluginIdle(nm) >= max_idle_

\* C9: a step of the sweep taken while max_idle_ is 0 leaves the table as it
\* is, and max_idle(i) with i < 0 leaves max_idle_ as it is.
C9_ZeroDisablesSweep ==
  [][/\ (Sweeping /\ max_idle_ = 0) => plugins_' = plugins_
     /\ \A c \in Admins, i \in MaxIdleArgs :
          (i < 0 /\ MaxIdle(c, i)) => max_idle_' = max_idle_]_vars

\* C10: when a sweep cycle ends, no plugin is in the table that at the start
\* of the cycle had no service task, a reference count of 1 and every task
\* idle for max_idle_ (> 0) minutes or more.
C10_EvictedInOneCycle ==
  [][\A r \in 1..MaxThreads : LoopEnd(r) => cycle \cap plugins_ = {}]_vars

\* C11: a bucket holds one task under a name, and the first registration wins:
\* a step of subscribe(name, h2) on a bucket that already holds the name leaves
\* the registry as it was, so the task keeps the handler, the help text, the
\* once flag and the clock it had.
C11_FirstRegistrationWins ==
  [][\A c \in Admins, I \in Indexes, nm \in KernelTaskNames, fn \in Handlers :
       (nm \in DOMAIN tasks_[I] /\ Subscribe(c, I, nm, fn, HelpOf(fn)))
         => tasks_' = tasks_]_vars

\* subscribe(name, h2) has returned on a bucket whose task of that name was
\* registered with h1 and fired at an earlier minute: it is still that task.
C11_SecondSubscribeKept ==
  /\ last.op = "subscribe" /\ last.fn = "h2"
  /\ last.nm \in DOMAIN tasks_[last.I]
  /\ tasks_[last.I][last.nm] = [MakeTask("h1", HelpOf("h1"), 0) EXCEPT !.once = TRUE]
  /\ now = 1

\* A call of run_once by c on task nm of bucket I is at its test or its launch.
InRunOnce(c, I, nm) == pc[c].op = "run_once" /\ pc[c].i = I /\ pc[c].nm = nm

\* C12: a fired once-task rejects later dispatch.  While the once flag of a
\* task is set, every run and every run_once on it returns an empty future,
\* launches nothing and leaves the registry as it is; a run_once on a task
\* whose flag is clear goes on to the launch and returns a valid future with
\* the flag set, so of two run_once in sequence the first is valid and the
\* second empty.
C12_FiredRejects ==
  [][\A c \in Admins, I \in Indexes, nm \in KernelTaskNames :
       /\ (/\ TaskOf(tasks_, I, nm).once
           /\ \/ RegistryRun(c, I, nm)
              \/ InRunOnce(c, I, nm) /\ (RunOnceTest(c) \/ RunOnceLaunch(c)))
            => (last'.res = EMPTY /\ tasks_' = tasks_ /\ launched' = launched)
       /\ (nm \in DOMAIN tasks_[I] /\ ~tasks_[I][nm].once /\ InRunOnce(c, I, nm))
            => /\ RunOnceTest(c) => pc'[c].at = "launch"
               /\ RunOnceLaunch(c) => (last'.res = VALID /\ tasks_'[I][nm].once
                                          /\ launched'[nm] = launched[nm] + 1)]_vars

\* The second of two run_once on a task has returned: it gave an empty future,
\* and the handler was launched once.
C12_SecondRunOnceEmpty ==
  /\ last.op = "run_once" /\ last.res = EMPTY
  /\ last.nm \in DOMAIN tasks_[last.I]
  /\ tasks_[last.I][last.nm].once
  /\ launched[last.nm] = 1

\* C13: the table holds one entry, with one live instance, per name, and a
\* get_plugin(name) on a running kernel that finds the name in the table gives
\* the caller the instance stored there: no instance is made, no entry is
\* added and no service thread is started, whichever thread loaded it first.
C13_OneEntryPerName ==
  [][/\ \A nm \in plugins_ : inst[nm] # NoInst(nm)
     /\ \A c \in Clients, nm \in Asked :
          (do_work_ /\ nm \in plugins_ /\ GetPlugin(c, nm))
            => /\ refs' = [refs EXCEPT ![nm] = @ \cup {c}]
               /\ inst' = inst /\ plugins_' = plugins_ /\ psvc' = psvc]_vars

\* Two callers asked for the same name: both hold the instance of the one
\* entry, which the first call loaded and the second found.
C13_BothHoldTheEntry ==
  \E nm \in plugins_ : Clients \subseteq refs[nm] /\ inst[nm] # NoInst(nm)

\* The threads of f that a step starts.
Spawned(f, g) == {r \in DOMAIN f : f[r] = "dead" /\ g[r] # "dead"}

\* C14: run() on a running kernel changes nothing and starts no thread; on a
\* stopped kernel it sets error_ to 0, do_work_ to true, expiry_ to false and
\* starts one sweep loop and one service runner.
C14_RunStartsOnce ==
  [][\A c \in Admins :
       Run(c) => IF do_work_
                 THEN UNCHANGED vars
                 ELSE /\ error_' = 0 /\ do_work_' /\ ~expiry_'
                      /\ Cardinality(Spawned(loop, loop')) = 1
                      /\ Cardinality(Spawned(ksvc, ksvc')) = 1
                      /\ \A r \in Spawned(loop, loop') : loop'[r] = "check"
                      /\ \A r \in Spawned(ksvc, ksvc') : ksvc'[r] = "has"
                      /\ UNCHANGED <<plugins_, tasks_, max_idle_>>]_vars

\* The kernel has been started again after a run in which its service runner
\* launched the service at minute 1 (nobody else called the task) and a stop:
\* it runs with error_ 0, expiry_ false, a sweep loop at its test and a service
\* runner at its start.
C14_StartedAgain ==
  /\ do_work_ /\ ~expiry_ /\ error_ = 0
  /\ loop[1] = "check" /\ ksvc[1] = "has"
  /\ Has(tasks_, 1, "service", k_args)
  /\ tasks_[1]["service"].clock = 1 /\ ~tasks_[1]["service"].once
  /\ launched["service"] = 0 /\ last = NoCall

\* No task of the registry has its once flag set.
NoneFired(reg) == \A I \in DOMAIN reg : \A nm \in DOMAIN reg[I] : ~reg[I][nm].once

\* C15: stop() on a stopped kernel changes nothing; when stop() on a running
\* kernel returns, the kernel is not running, the table is empty and no task
\* of the kernel's registry has its once flag set, so that the service runner
\* of a following run() finds the flag of "service" clear and launches it.
C15_StopThenRestart ==
  [][/\ \A c \in Admins : (Stop(c) /\ ~do_work_) => UNCHANGED vars
     /\ \A c \in Admins :
          (StopWhile(c) /\ pc'[c] = Idle)
            => (~do_work_' /\ plugins_' = {} /\ NoneFired(tasks_'))
     /\ \A r \in 1..MaxThreads :
          KsvcRunOnce(r) => ~Task(tasks_, 1, "service").once]_vars

\* The kernel's state: Running while do_work_ is set, Draining from the
\* `do_work_ = false` of stop() to its return, Stopped otherwise.
KernelState ==
  IF do_work_ THEN "Running"
  ELSE IF \E c \in Clients : pc[c].op = "stop" THEN "Draining"
  ELSE "Stopped"

\* C16: the kernel goes from Stopped to Running by run(), from Running to
\* Draining by stop(), from Draining to Stopped by the return of stop(), and
\* in no other way (so a run() during Draining has no effect until the drain
\* is over); no plugin is added to the table while Draining or Stopped.
C16_Lifecycle ==
  [][/\ KernelState = "Stopped"
          => \/ KernelState' = "Stopped"
             \/ KernelState' = "Running" /\ \E c \in Clients : Run(c)
     /\ KernelState = "Running"
          => \/ KernelState' = "Running"
             \/ KernelState' = "Draining" /\ \E c \in Clients : Stop(c)
     /\ KernelState = "Draining"
          => \/ KernelState' = "Draining"
             \/ KernelState' = "Stopped" /\ \E c \in Clients : StopWhile(c)
     /\ KernelState # "Running" => plugins_' \subseteq plugins_]_vars

\* The kernel is Draining after the sweep loop has ended, with a plugin still
\* in the table and a caller that holds it.
C16_Draining ==
  /\ KernelState = "Draining" /\ expiry_
  /\ \E nm \in plugins_ : refs[nm] \cap Clients # {}

\* C17: the result of the kernel's service becomes error_.  When the handler
\* started by service_cb returns, error_ is its value if that is an int and -1
\* if not; when run_once gave service_cb an empty future, error_ becomes -1;
\* a kernel without a "service" task keeps error_ at 0.
C17_ServiceResultIsError ==
  [][\A r \in 1..MaxThreads :
       /\ KsvcHandler(r)
            => error_' \in {IF v.int THEN v.val ELSE -1 : v \in SvcResults}
       /\ (KsvcRunOnce(r) /\ Task(tasks_, 1, "service").once) => error_' = -1
       /\ (KsvcHas(r) /\ ~Has(tasks_, 1, "service", k_args))
            => (error_ = 0 /\ error_' = 0)]_vars

\* The registry reg without the task nm of bucket I, and nothing else changed.
Without(reg, I, nm) ==
  [J \in DOMAIN reg |->
     IF J = I THEN [m \in DOMAIN reg[I] \ {nm} |-> reg[I][m]] ELSE reg[J]]

\* What unsubscribe is to do with the task nm of bucket I.
AfterUnsubscribe(I, nm) ==
  IF nm \notin DOMAIN tasks_[I] THEN tasks_
  ELSE IF nm = "service" /\ I = 1 /\ tasks_[I][nm].once THEN tasks_
  ELSE Without(tasks_, I, nm)

\* C18: unsubscribe, by name or by index, leaves the registry as it is when
\* its target is the task "service" of bucket 1 with the once flag set, or
\* when there is no such task; in every other case it removes that task and
\* no other.
C18_FiredServiceStays ==
  [][\A c \in Admins, I \in Indexes :
       /\ \A nm \in CallNames :
            Unsubscribe(c, I, nm) => tasks_' = AfterUnsubscribe(I, nm)
       /\ \A i \in Slots :
            UnsubscribeAt(c, I, i)
              => IF i >= Cardinality(DOMAIN tasks_[I]) THEN tasks_' = tasks_
                 ELSE \E nm \in DOMAIN tasks_[I] :
                        /\ Cardinality({m \in DOMAIN tasks_[I] : NameRank(m) < NameRank(nm)}) = i
                        /\ tasks_' = AfterUnsubscribe(I, nm)]_vars

\* unsubscribe of "service" has returned on a bucket 1 that holds, beside the
\* fired "service", another task: both are still there.
C18_RefusedService ==
  /\ last.op = "unsubscribe" /\ last.I = 1 /\ last.nm = "service"
  /\ DOMAIN tasks_[1] = {"lambda0", "service"}
  /\ tasks_[1]["service"].once

\* C19: run and run_once on a name the bucket does not hold, or on an index
\* out of range, return an empty future, launch nothing and leave the registry
\* (the tasks, their once flags and clocks) as it is.
C19_AbsentGivesEmpty ==
  [][\A c \in Admins, I \in Indexes :
       /\ \A nm \in CallNames :
            (nm \notin DOMAIN tasks_[I]
               /\ \/ RegistryRun(c, I, nm)
                  \/ InRunOnce(c, I, nm) /\ (RunOnceTest(c) \/ RunOnceLaunch(c)))
              => (last'.res = EMPTY /\ tasks_' = tasks_ /\ launched' = launched)
       /\ \A i \in Slots :
            (i >= Cardinality(DOMAIN tasks_[I])
               /\ \/ RegistryRunAt(c, I, i)
                  \/ InRunOnce(c, I, NONE) /\ (RunOnceTest(c) \/ RunOnceLaunch(c)))
              => (last'.res = EMPTY /\ tasks_' = tasks_ /\ launched' = launched)]_vars

\* run_once has returned an empty future for a name that bucket 1 does not
\* hold, while the bucket holds a task that was never fired.
C19_AbsentRunOnce ==
  /\ last.op = "run_once" /\ last.res = EMPTY /\ last.I = 1
  /\ last.nm \notin DOMAIN tasks_[1]
  /\ \E nm \in DOMAIN tasks_[1] : ~tasks_[1][nm].once /\ launched[nm] = 0

\* C20: subscribe with an empty name or a null handler leaves the registry as
\* it is; subscribe with a name the bucket does not hold (not empty) and a
\* handler (not null) adds to that bucket one task, with that handler and help
\* text and a clear once flag, and changes nothing else.
C20_SubscribeAddsOne ==
  [][\A c \in Admins, I \in Indexes, nm \in KernelTaskNames \cup {""},
        fn \in Handlers \cup {NULLFN} :
       Subscribe(c, I, nm, fn, HelpOf(fn))
         => IF nm = "" \/ fn = NULLFN THEN tasks_' = tasks_
            ELSE nm \notin DOMAIN tasks_[I]
                   => /\ DOMAIN tasks_' = DOMAIN tasks_
                      /\ \A J \in DOMAIN tasks_ \ {I} : tasks_'[J] = tasks_[J]
                      /\ DOMAIN tasks_'[I] = DOMAIN tasks_[I] \cup {nm}
                      /\ \A m \in DOMAIN tasks_[I] : tasks_'[I][m] = tasks_[I][m]
                      /\ tasks_'[I][nm].fn = fn /\ tasks_'[I][nm].help = HelpOf(fn)
                      /\ ~tasks_'[I][nm].once]_vars

\* subscribe("service", nullptr) has returned on a bucket 1 without "service":
\* the bucket still holds only the task that a subscribe with h2 added to it.
C20_NullHandlerIgnored ==
  /\ last.op = "subscribe" /\ last.I = 1 /\ last.nm = "service" /\ last.fn = NULLFN
  /\ DOMAIN tasks_[1] = {"lambda0"}
  /\ tasks_[1]["lambda0"].fn = "h2" /\ ~tasks_[1]["lambda0"].once

\* ---------------------------------------------------------------------
\* C21: the observers respect the stopped state and the bounds of the table.
\* count_plugins() returns 0 on a stopped kernel and the size of the table on
\* a running one; get_plugin(index) hands out one entry of the table when the
\* kernel runs and index < size, and nothing otherwise; get_plugin(name) hands
\* out nothing on a stopped kernel; count_plugins and get_plugin(index) never
\* change the table.
C21_ObserversKeepTable ==
  [][/\ \A c \in Clients :
          CountPlugins(c) =>
            /\ count' = (IF do_work_ THEN Cardinality(plugins_) ELSE 0)
            /\ plugins_' = plugins_ /\ inst' = inst /\ refs' = refs
     /\ \A c \in Admins, i \in Indexes :
          GetPluginAt(c, i) =>
            /\ plugins_' = plugins_ /\ inst' = inst
            /\ IF do_work_ /\ i < Cardinality(plugins_)
               THEN \E nm \in plugins_ : refs' = [refs EXCEPT ![nm] = @ \cup {c}]
               ELSE refs' = refs
     /\ \A c \in Clients, nm \in Asked :
          (GetPlugin(c, nm) /\ ~do_work_) =>
            plugins_' = plugins_ /\ inst' = inst /\ refs' = refs]_vars

\* A running kernel was asked for its count and for an entry by index.
C21_CountedAndFetched ==
  /\ do_work_
  /\ count = Cardinality(plugins_)
  /\ count > 0
  /\ \E nm \in plugins_ : "c1" \in refs[nm] /\ "c2" \notin refs[nm]

\* ---------------------------------------------------------------------
\* The plugin instances whose member `std::shared_ptr<iplugins<L>> plugins_`
\* points to the kernel: each is one owning reference to the kernel object.
KernelOwners == {nm \in Names : inst[nm].backref}

\* C22: a plugin's back-reference to the kernel is non-owning. Loading a
\* plugin never increases the number of owning references to the kernel, and
\* a plugin that outlives its table entry holds no owning reference to it.
C22_BackRefNotOwning ==
  [][/\ \A c \in Clients, nm \in Asked :
          GetPlugin(c, nm) => Cardinality(KernelOwners') = Cardinality(KernelOwners)
     /\ \A nm \in Names : nm \notin plugins_' => nm \notin KernelOwners']_vars

\* ---------------------------------------------------------------------
\* C23: a load failure is local and not fatal. On a running kernel,
\* get_plugin(name) for a name with no library, a library without the
\* import_plugin export, or one whose factory returns null, returns no plugin
\* and leaves the table, the instances, the running state and the error code
\* as they were; a later get_plugin of a loadable name of the kernel's arity
\* still enters the table and hands the plugin to its caller.
C23_LoadFailureIsLocal ==
  [][/\ \A c \in Clients, nm \in Failing \cup {Other} :
          (GetPlugin(c, nm) /\ do_work_) =>
            /\ last' = Called("get_plugin", 0, nm, "", NONE)
            /\ plugins_' = plugins_ /\ inst' = inst /\ refs' = refs
            /\ do_work_' = do_work_ /\ error_' = error_ /\ psvc' = psvc
     /\ \A c \in Clients, nm \in disk :
          (GetPlugin(c, nm) /\ do_work_ /\ AbiAccepted(nm) /\ last.op = "get_plugin") =>
            nm \in plugins_' /\ c \in refs'[nm]]_vars

\* After a factory returned null, the kernel runs on and holds a plugin.
C23_FailedThenHolding ==
  /\ last = Called("get_plugin", 0, NullPlugin, "", NONE)
  /\ do_work_
  /\ plugins_ # {}
  /\ error_ = 0

\* ---------------------------------------------------------------------
\* C24: the kernel's "service" task runs once per activation: while the kernel
\* runs, the launches of its handler since start() (by the kernel's service
\* runner and by run and run_once of any thread) number at most one.
C24_ServiceOncePerStart == do_work_ => fired <= 1

\* ---------------------------------------------------------------------
\* unload_plugin of c is at its wait and only the table holds the plugin.
LastHolderLeft(c) ==
  /\ pc[c].op = "unload_plugin" /\ pc[c].at = "drain"
  /\ UseCount(pc[c].nm) = 1

\* C25: the drain completes promptly. Once unload_plugin waits and no holder
\* but the table is left, the count stays at 1 for as long as the call waits,
\* the next test of the wait ends it, the erase that follows removes the entry
\* and returns, and the call does return.
C25_DrainCompletes ==
  /\ [][\A c \in Admins :
          LastHolderLeft(c) =>
            /\ pc'[c] = pc[c] => (refs'[pc[c].nm] = {} /\ pc[c].nm \in plugins_')
            /\ pc'[c] # pc[c] => UnloadDrained(c)]_vars
  /\ [][\A c \in Admins :
          UnloadErase(c) => (pc[c].nm \notin plugins_' /\ pc'[c] = Idle
                             /\ mtx_' = Unlocked)]_vars
  /\ \A c \in Admins : LastHolderLeft(c) ~> (pc[c] = Idle)

\* The wait has just ended with the table the only holder: the erase is next.
C25_WaitEnded ==
  /\ pc["c1"].op = "unload_plugin" /\ pc["c1"].at = "erase"
  /\ UseCount(pc["c1"].nm) = 1
  /\ ~inst[pc["c1"].nm].do_work

\* ---------------------------------------------------------------------
\* A handler calls back.  The thread std::async starts for a handler exists
\* once run_once has launched one; it calls subscribe, unsubscribe, run and
\* run_once on the registry that dispatched it, while the dispatching thread
\* goes on dispatching.
Dispatcher == "c1"
HandlerThread == "c2"
HandlerLaunched == \E nm \in KernelTaskNames : launched[nm] > 0

CbInit == Construct(0, KernelTasks(FALSE)) /\ k_args = MAX_PLUGINS_ARGS

CbNext ==
  \/ \E I \in Indexes, nm \in CallNames : RunOnceCall(Dispatcher, I, nm)
  \/ \E I \in Indexes, nm \in CallNames : RegistryRun(Dispatcher, I, nm)
  \/ \E c \in Clients : RunOnceTest(c)
  \/ \E c \in Clients : RunOnceLaunch(c)
  \/ \E nm \in CallNames, fn \in Handlers :
       HandlerLaunched /\ Subscribe(HandlerThread, 1, nm, fn, HelpOf(fn))
  \/ \E I \in Indexes, nm \in CallNames :
       HandlerLaunched /\ Unsubscribe(HandlerThread, I, nm)
  \/ \E I \in Indexes, nm \in CallNames :
       HandlerLaunched /\ RunOnceCall(HandlerThread, I, nm)
  \/ \E I \in Indexes, nm \in CallNames :
       HandlerLaunched /\ RegistryRun(HandlerThread, I, nm)

\* A thread inside run_once goes on to its return.
CbFairness == \A c \in Clients : WF_vars(RunOnceTest(c) \/ RunOnceLaunch(c))

CbSpec == CbInit /\ [][CbNext]_vars /\ CbFairness

\* C26: a handler may call back into the registry that dispatched it without
\* deadlock. The registry's lock is held only by a thread inside a dispatch,
\* which never waits for a handler: its next step is always possible and the
\* launch returns with the lock released; so every holder lets the lock go
\* and a call of the handler's thread is never shut out for good.
C26_HandlerCallsBack ==
  /\ [](\A c \in Clients :
          c \in mtx_.readers =>
            /\ pc[c].op = "run_once"
            /\ ENABLED (RunOnceTest(c) \/ RunOnceLaunch(c)))
  /\ [](mtx_.writer = NONE)
  /\ [][\A c \in Clients :
          RunOnceLaunch(c) => (c \notin mtx_'.readers /\ pc'[c] = Idle)]_vars
  /\ \A c \in Clients : (c \in mtx_.readers) ~> (c \notin mtx_.readers)

\* The handler's thread has subscribed a task while the dispatcher was inside
\* another run_once.
C26_SubscribedFromHandler ==
  /\ HandlerLaunched
  /\ Has(tasks_, 1, "service", k_args)
  /\ pc[HandlerThread].op = "run_once"
  /\ pc[Dispatcher].op = "run_once"
  /\ mtx_.readers = Clients

\* ---------------------------------------------------------------------
\* A kernel with a "service" task of its own and one library on the search
\* path: everything of Next, and the service runner of run() going on to the
\* launch and the handler's result.
SvcInit == Construct(LiveLibs, KernelTasks(TRUE))

SvcNext ==
  \/ Next
  \/ \E r \in 1..MaxThreads : KsvcRunOnce(r)
  \/ \E r \in 1..MaxThreads : KsvcLaunch(r)
  \/ \E r \in 1..MaxThreads : KsvcHandler(r)

SvcSpec == SvcInit /\ [][SvcNext]_vars

\* C27: the error code is written only by start(), which resets it to 0, and
\* by the kernel's own service runner when its wait for the service task ends;
\* get_plugin, unload_plugin, stop(), the idle sweep, the plugins' service
\* threads and the dispatch of tasks leave it as it is.
C27_ErrorCodeWriters ==
  [][/\ error_' # error_ =>
          \/ \E c \in Admins : Run(c) /\ error_' = 0
          \/ \E r \in 1..MaxThreads : KsvcRunOnce(r) \/ KsvcHandler(r)
     /\ (\/ \E c \in Clients, nm \in Asked : GetPlugin(c, nm)
         \/ \E c \in Admins, i \in Indexes : GetPluginAt(c, i)
         \/ \E c \in Admins, nm \in Asked : UnloadPlugin(c, nm)
         \/ \E c \in Admins, i \in Indexes : UnloadPluginAt(c, i)
         \/ \E c \in Admins : UnloadDrained(c) \/ UnloadErase(c)
         \/ \E c \in Admins : Stop(c) \/ StopWait(c) \/ StopWhile(c) \/ StopFor(c)
         \/ \E r \in 1..MaxThreads : LoopCheck(r) \/ LoopLock(r) \/ LoopFor(r) \/ LoopEnd(r)
         \/ \E nm \in Names : PsvcHas(nm) \/ PsvcSet(nm) \/ PsvcRunOnce(nm)
                                \/ PsvcPoll(nm) \/ PsvcResume(nm)
         \/ \E c \in Clients, nm \in Names, I \in {0, 2}, name \in {"test0", "sum2"} :
              Dispatch(c, nm, I, name))
          => error_' = error_]_vars

\* The service's result is the error code, and the kernel has since been
\* stopped, with a plugin loaded and unloaded on the way.
C27_ResultSurvivesStop ==
  /\ error_ = 3
  /\ ~do_work_
  /\ \A c \in Clients : pc[c] = Idle
  /\ \E nm \in Names : psvc[nm] # "dead" \/ refs[nm] # {}

\* ---------------------------------------------------------------------
\* C28: a once-task executes at most one time in the life of its registry:
\* over any sequence of start(), stop(), run and run_once, run_once launches
\* the handler of a task at most once.
C28_OnceOverLifetime == \A n \in KernelTaskNames : ran[n] <= 1

\* ---------------------------------------------------------------------
\* task::idle() of every task of a registry, whatever its bucket.
AllIdles(reg, t) ==
  UNION {{TaskIdle(reg[I][n], t) : n \in DOMAIN reg[I]} : I \in DOMAIN reg}

\* C29: storage::idle() is the minimum, over all tasks of all buckets, of the
\* minutes since the task was last dispatched or registered: for every plugin
\* instance alive, idle() is the idle time of one of its tasks and no task has
\* a smaller one (so it is at least m when every task's is, and 0 right after
\* a dispatch).
C29_IdleIsMinimum ==
  \A nm \in Names :
    (nm \in plugins_ \/ refs[nm] # {}) =>
      LET idles == AllIdles(inst[nm].tasks, now)
      IN  idles # {} => /\ PluginIdle(nm) \in idles
                        /\ \A i \in idles : PluginIdle(nm) <= i

\* ---------------------------------------------------------------------
\* A program that makes one shared_library for "foo", with every search path
\* argument, PATH and file system of the bounded sets.
LoadInit == Construct(0, KernelTasks(FALSE))

LoadNext ==
  /\ ~library.loaded
  /\ \E path0 \in PathArgs, paths2 \in EnvPaths, files \in FileSystems :
       Load(path0, paths2, files)

LoadSpec == LoadInit /\ [][LoadNext]_vars

\* An entry that is a regular file, matches the name pattern and opens.
Loadable(f) == Regular(f) /\ Matches(f) /\ Dlopen(f)

\* The first loadable entry when the directories are examined in the given
\* order and each directory's entries in the order of its listing; NoFile
\* when no directory of the order holds one.
FirstLoadable(order, files) ==
  LET good == {k \in DOMAIN files :
                 /\ Loadable(files[k][2])
                 /\ \E i \in DOMAIN order : order[i] = files[k][1]}
      pos(k) == CHOOSE i \in DOMAIN order :
                  /\ order[i] = files[k][1]
                  /\ \A j \in DOMAIN order : order[j] = files[k][1] => i <= j
  IN  IF good = {} THEN NoFile
      ELSE files[CHOOSE k \in good :
                   \A m \in good : pos(k) < pos(m) \/ (pos(k) = pos(m) /\ k <= m)]

\* The order the claim states: the caller's directories, the fixed defaults,
\* the directories of PATH.
StatedOrder(path0, paths2) == path0 \o Defaults \o paths2

\* The order on a build that is not for Windows: the caller's directories, the
\* fixed defaults, d/../lib for every directory d of PATH, then d/../lib/q for
\* every directory q of the caller and every d of PATH.
SearchOrder(path0, paths2) ==
  path0 \o Defaults \o [i \in DOMAIN paths2 |-> paths2[i] \o DotDotLib]
        \o Appended(path0, paths2)

LibFiles ==
  [1..MaxFiles -> {NoFile, <<<<"lib">>, LibSo>>, <<<<"lib">>, LibBroken>>, <<U, LibSo>>}]

LibInit == Construct(0, KernelTasks(FALSE))

LibNext ==
  \/ \E path0 \in PathArgs, files \in LibFiles : Load(path0, <<>>, files)
  \/ Unload
  \/ \E s \in Symbols : LibHas(s)
  \/ \E s \in Symbols : Get(s)
  \/ \E s \in Symbols : GetRaw(s)

LibSpec == LibInit /\ [][LibNext]_vars

\* C31: unload() is idempotent.  Every unload() leaves the object not loaded
\* with an empty filename; on an object that is not loaded it changes neither
\* the object nor the handles the loader holds, and on a loaded one it gives
\* up exactly one handle.  While the object is not loaded has() answers false
\* and get() and get_raw() answer empty.
C31_UnloadIdempotent ==
  [][ /\ Unload =>
           /\ ~library'.dll_ /\ library'.filename_ = NoFile
           /\ ~library.dll_ => UNCHANGED <<library, handles>>
           /\ Len(handles') = Len(handles) - (IF library.dll_ THEN 1 ELSE 0)
      /\ ~library'.dll_ =>
           /\ libcall'.op = "has" => libcall'.has = FALSE
           /\ libcall'.op \in {"get", "get_raw"} => libcall'.ret = NONE
    ]_vars

\* A library that was loaded and unloaded: its file is still there to load,
\* the loader holds no handle, and the factory is no longer found.
C31_LookupAfterUnload ==
  /\ library.loaded /\ ~library.dll_ /\ library.filename_ = NoFile
  /\ LoadDll(library.path0, library.PATH, library.files) # NoFile
  /\ handles = <<>>
  /\ libcall.op = "get" /\ libcall.s = "import_plugin" /\ libcall.ret = NONE

\* C38: in every state of a shared_library the filename is recorded exactly
\* when a handle is held; the loader holds open the recorded file and no
\* other, so a load has given up the handle held before it and a load that
\* opens nothing leaves the object not loaded with no filename; the recorded
\* file is an entry of the file system searched, one that opens.
C38_HandleInvariant ==
  /\ (library.filename_ # NoFile) <=> library.dll_
  /\ handles = IF library.dll_ THEN <<library.filename_>> ELSE <<>>
  /\ library.dll_ =>
       /\ Loadable(library.filename_[2])
       /\ \E k \in DOMAIN library.files : library.files[k] = library.filename_

\* A load on an object that held a library, with nothing to open: the object
\* is not loaded, has no filename, and the loader holds nothing.
C38_FailedOverLoaded ==
  /\ library.loaded /\ library.before # NoFile
  /\ LoadDll(library.path0, library.PATH, library.files) = NoFile
  /\ ~library.dll_ /\ library.filename_ = NoFile /\ handles = <<>>
  /\ libcall = NoLookup

\* ---------------------------------------------------------------------
\* A registry that holds the tasks of examples/plugin1.cxx, test0 (no
\* argument) and sum2 (two), each with its once-flag clear or set, and one
\* thread that dispatches them, and a name that is not subscribed, with
\* every argument list of the bounded set.
DispatchTasks(once0, once2) ==
  [I \in {0, 1, 2} |->
     IF I = 0 THEN [n \in {"test0"} |-> [MakeTask("test0", "", 0) EXCEPT !.once = once0]]
     ELSE IF I = 2 THEN [n \in {"sum2"} |-> [MakeTask("sum2", "", 0) EXCEPT !.once = once2]]
     ELSE [n \in {} |-> EmptyTask]]

DispatchNames == {"test0", "sum2", "not_subscribed"}

ArgLists == {<<>>} \cup {<<x, y>> : x \in ArgValues, y \in ArgValues}

DispInit == \E once0 \in BOOLEAN, once2 \in BOOLEAN : Construct(0, DispatchTasks(once0, once2))

DispNext ==
  \/ \E c \in Admins, nm \in DispatchNames, args \in ArgLists :
       StorageRun(c, Len(args), nm, args)
  \/ HandlerReturns
  \/ Tick

DispSpec == DispInit /\ [][DispNext]_vars

\* C32: a run<I>(nm, a1..ak) of a subscribed task whose once-flag is clear
\* returns a valid future and launches one handler, that task's, with the
\* arguments as given and in the order given; once ready, the future holds
\* what the handler returns for them; sum2 with (125, 175) gives the int 300.
C32_DispatchRoundTrip ==
  future.call.called /\ future.call.had /\ ~future.call.once =>
    /\ future.valid
    /\ future.launches = 1
    /\ future.fn = future.call.nm
    /\ future.fn = tasks_[future.call.I][future.call.nm].fn
    /\ Len(future.received) = Len(future.call.args)
    /\ \A i \in DOMAIN future.call.args :
         IF future.call.args[i].type = "any"
         THEN ~future.received[i].has_value
         ELSE /\ future.received[i].has_value
              /\ future.received[i].type = future.call.args[i].type
              /\ future.received[i].v = future.call.args[i].v
    /\ future.ready => future.value = Apply(future.fn, future.received)
    /\ future.ready /\ future.call.nm = "sum2"
         /\ future.call.args = <<IntArg(125), IntArg(175)>> =>
           future.value.has_value /\ future.value.type = "int" /\ future.value.v = 300

\* The documented round trip: sum2 dispatched with (125, 175), awaited: 300.
C32_Sum2Gives300 ==
  /\ future.call.called /\ future.call.nm = "sum2" /\ ~future.call.once
  /\ future.call.args = <<IntArg(125), IntArg(175)>>
  /\ future.valid /\ future.ready
  /\ future.value = MakeAny("int", 300)

\* C33: once unload_plugin has cleared a plugin's running flag, the flag is
\* false for as long as unload_plugin waits and until it has erased the
\* entry, whatever the plugin's service thread does meanwhile.
C33_SignalNotLost ==
  \A c \in Clients :
    pc[c].op = "unload_plugin" /\ pc[c].at \in {"drain", "erase"} =>
      ~inst[pc[c].nm].do_work

\* ---------------------------------------------------------------------
\* The kernel with one library on the search path, whose plugin's service
\* either polls is_run() or returns of its own accord.
FlagNext ==
  \/ Next
  \/ \E nm \in Names : PsvcReturns(nm)

FlagSpec == LiveInit /\ [][FlagNext]_vars

\* C34: a plugin's running flag is true only while its service task is in
\* flight: only for a plugin that has a "service" task, after the task was
\* launched and before its handler has returned.
C34_FlagWhileInFlight ==
  \A nm \in Names :
    inst[nm].do_work => HasService(nm) /\ psvc[nm] \in {"handler", "get"}

\* ---------------------------------------------------------------------
\* The kernel with one library on the search path and room for SweepThreads
\* sweep loops: run() and stop() from two threads in any order, with
\* get_plugin, release, max_idle and the clock.
SweepInit == ConstructWith(LiveLibs, KernelTasks(FALSE), SweepThreads)

SweepNext ==
  \/ \E c \in Clients : Run(c)
  \/ \E c \in Clients : Stop(c)
  \/ \E c \in Clients : StopWait(c)
  \/ \E c \in Clients : StopWhile(c)
  \/ \E c \in Clients : StopFor(c)
  \/ \E c \in Admins, nm \in disk : GetPlugin(c, nm)
  \/ \E c \in Admins, nm \in Names : Release(c, nm)
  \/ \E c \in Admins, i \in MaxIdleArgs : MaxIdle(c, i)
  \/ Tick
  \/ \E r \in DOMAIN loop : LoopCheck(r)
  \/ \E r \in DOMAIN loop : LoopLock(r)
  \/ \E r \in DOMAIN loop : LoopFor(r)
  \/ \E r \in DOMAIN loop : LoopEnd(r)
  \/ \E r \in DOMAIN ksvc : KsvcHas(r)
  \/ \E nm \in Names : PsvcHas(nm)
  \/ \E nm \in Names : PsvcSet(nm)
  \/ \E nm \in Names : PsvcRunOnce(nm)
  \/ \E nm \in Names : PsvcPoll(nm)
  \/ \E nm \in Names : PsvcResume(nm)

SweepSpec == SweepInit /\ [][SweepNext]_vars

\* The sweep-loop threads that have not ended.
ActiveLoops == {r \in DOMAIN loop : loop[r] # "dead"}

\* C35: at most one sweep loop is alive at any time, whatever the order of
\* run() and stop() calls and of the threads' steps, and expiry_ is false
\* exactly while a sweep loop is alive.
C35_OneSweepLoop ==
  /\ Cardinality(ActiveLoops) <= 1
  /\ expiry_ <=> ActiveLoops = {}

\* A stop() that waits for the acknowledgement of the one sweep loop while
\* the other thread is ready to call run().
C35_StopAwaitsLoop ==
  /\ pc["c1"].op = "stop" /\ pc["c1"].at = "wait"
  /\ pc["c2"] = Idle
  /\ ~do_work_ /\ ~expiry_
  /\ Cardinality(ActiveLoops) = 1

\* ---------------------------------------------------------------------
\* examples/microservice.cxx: main subscribes "service", sets max_idle, calls
\* run() and polls is_run(); the service handler calls stop() on the kernel
\* and returns its result.
MainThread == "c1"

\* main has called run().
Started == (\E r \in DOMAIN ksvc : ksvc[r] # "dead") \/ ran["service"] > 0

\* The service handler is running and has not called stop() yet.
InHandler == do_work_ /\ \E r \in DOMAIN ksvc : ksvc[r] = "handler"

\* The handler's stop() has returned.
StopReturned == ~do_work_ /\ pc[HandlerThread] = Idle

PatInit == Construct(0, KernelTasks(TRUE))

PatNext ==
  \/ \E i \in MaxIdleArgs : ~Started /\ MaxIdle(MainThread, i)
  \/ ~Started /\ Run(MainThread)
  \/ Started /\ MainPoll
  \/ MainReturn
  \/ \E r \in DOMAIN ksvc : KsvcHas(r)
  \/ \E r \in DOMAIN ksvc : KsvcRunOnce(r)
  \/ \E r \in DOMAIN ksvc : KsvcLaunch(r)
  \/ InHandler /\ Stop(HandlerThread)
  \/ StopWait(HandlerThread)
  \/ StopWhile(HandlerThread)
  \/ \E r \in DOMAIN ksvc : StopReturned /\ KsvcHandler(r)
  \/ \E r \in DOMAIN loop : LoopCheck(r)
  \/ \E r \in DOMAIN loop : LoopLock(r)
  \/ \E r \in DOMAIN loop : LoopEnd(r)
  \/ Tick

PatSpec == PatInit /\ [][PatNext]_vars

\* C36: when the service handler has called stop() and returned the int r,
\* and main has left its is_run() loop and returned error(), main's exit
\* code is r.
C36_ExitCodeIsResult ==
  \A v \in SvcResults :
    /\ v.int
    /\ main.at = "done"
    /\ StopReturned /\ \A r \in DOMAIN ksvc : ksvc[r] = "dead"
    /\ error_ = v.val
    => main.code = v.val

\* A step in which a run or run_once returns, where one thread calls the
\* kernel's registry: the call is the last one recorded, and the step is not
\* the clock's.
DispatchReturns ==
  /\ last'.op \in {"run", "run_once"} /\ last'.res \in {VALID, EMPTY}
  /\ now' = now
  /\ last' # last \/ tasks_' # tasks_

\* C37: a run or run_once on a task whose once-flag is set returns an empty
\* future; a dispatch that returns an empty future leaves every task's
\* clock_ and is_once_, and the registry's idle(), as they were; a dispatch
\* that returns a valid future leaves the task's clock_ at the current time
\* (and a run_once its is_once_ set, a run its is_once_ as it was).
C37_RejectedIsNotActivity ==
  [][ DispatchReturns =>
        LET I == last'.I
            nm == last'.nm
            before == TaskOf(tasks_, I, nm)
        IN  /\ before.once => last'.res = EMPTY
            /\ last'.res = EMPTY =>
                 /\ tasks_' = tasks_
                 /\ StorageIdle(tasks_', k_args, now') = StorageIdle(tasks_, k_args, now)
            /\ last'.res = VALID =>
                 /\ tasks_'[I][nm].clock = now
                 /\ tasks_'[I][nm].once = (before.once \/ last'.op = "run_once")
                 /\ \A J \in DOMAIN tasks_ : \A m \in DOMAIN tasks_[J] :
                      <<J, m>> # <<I, nm>> => tasks_'[J][m] = tasks_[J][m]
    ]_vars

\* A run that was refused at minute 1 on a task that fired at minute 0: the
\* task's clock is still 0.
C37_RefusedLater ==
  /\ last = Called("run", 0, "lambda0", "", EMPTY)
  /\ now = 1
  /\ "lambda0" \in DOMAIN tasks_[0]
  /\ tasks_[0]["lambda0"].once /\ tasks_[0]["lambda0"].clock = 0

=============================================================================
